---- MODULE Spec2Model ----
(***************************************************************************)
(* Model of the BMR analytics engine (lib/analytic.service.ts) and of the  *)
(* date-range reprojection of components/AnalyticsDashboard.tsx.           *)
(*                                                                         *)
(* Conventions                                                             *)
(*  - item identifiers are the integers 1..n; their order stands for the   *)
(*    string order of the identifiers;                                     *)
(*  - a timestamp is a day number; the date string "yyyy-MM-dd" of a       *)
(*    timestamp is that number, the empty string is 0, and the order of    *)
(*    the numbers is the lexicographic order of the strings;               *)
(*  - a JavaScript number produced by `(a / b) * c` is an IEEE-754         *)
(*    binary64 value, modelled bit for bit (Dbl* operators): rounding      *)
(*    noise decides the order of equal remainders in distributeToTotal;    *)
(*  - a quotient of two integers that is only compared or reported         *)
(*    (leak, probs) is the exact reduced fraction <<n, d>>: binary64       *)
(*    division is correctly rounded, so equal quotients give equal         *)
(*    doubles and the order of the small quotients here is preserved.      *)
(***************************************************************************)
EXTENDS Integers, Sequences, FiniteSets, TLC

VARIABLES
  pc,            \* the step of the request
  args, ret,     \* a function on its own: its arguments and what it returned
  visits,        \* the customervisits collection
  meta,          \* the item metadata built from the listings
  initialData,   \* the bundle computed from the documents
  applied,       \* the applied date range [from, to]
  filtered,      \* the reprojected bundle shown by the dashboard
  dateRange,     \* the date range selected in the From and To inputs
  validationError \* the message shown for the selected range, "" for none

vars == <<pc, args, ret, visits, meta, initialData, applied, filtered,
          dateRange, validationError>>

----------------------------------------------------------------------------
(* Bounds of the model                                                     *)

MaxTotal == 6
MaxLen == 3
MaxWeight == 4
MaxDay == 2
MaxItem == 2
MaxDocs == 2
MaxRaw == 2
MaxCarts == 3
MaxTrendDay == 6
MaxRecoItem == 12
MaxRecoDocs == 2
MaxTierItem == 5
MaxTierRaw == 2
MaxDashRaw == 2
MaxObj == 2
MaxLinks == 3

----------------------------------------------------------------------------
(* Sequences and integers                                                  *)

Indices(s) == 1..Len(s)

(* the sequence s with its elements computed *)
Array(s) == s \o <<>>

(* `const name = value; ... body`: With({body : name \in {value}}) is body  *)
(* with the name bound to the value, computed once. Nested bindings read   *)
(* from the last to the first.                                             *)
With(S) == CHOOSE v \in S : TRUE

RECURSIVE SumSeq(_)
SumSeq(s) ==
  With({(IF Len(t) = 0 THEN 0
         ELSE IF Len(t) = 1 THEN t[1]
         ELSE SumSeq(SubSeq(t, 1, Len(t) \div 2))
              + SumSeq(SubSeq(t, (Len(t) \div 2) + 1, Len(t))))
        : t \in {Array(s)}})

RECURSIVE SeqsUpTo(_, _)
SeqsUpTo(S, n) ==
  IF n = 0 THEN {<<>>}
  ELSE LET shorter == SeqsUpTo(S, n - 1)
       IN shorter \cup {Append(s, x) : s \in {t \in shorter : Len(t) = n - 1}, x \in S}

(* Array.prototype.sort: stable. before[i][j] is "comparator(s[i], s[j])   *)
(* < 0"; an element lands after those that come before it and after the    *)
(* earlier ones it ties: rank[i] is the position s[i] lands on.            *)
SortStable(s, before) ==
  With({Array([k \in Indices(rank) |-> s[CHOOSE i \in Indices(rank) : rank[i] = k]])
        : rank \in {Array([i \in Indices(before) |->
                      1 + Cardinality({j \in Indices(before) :
                                         before[j][i] \/ (j < i /\ ~before[i][j])})])}})

(* the comparator (a, b) => b - a in the place of (a, b) => a - b *)
Reversed(keys) == [i \in Indices(keys) |-> [j \in Indices(keys) |-> keys[i] > keys[j]]]

(* the comparators (a, b) => a - b and (a, b) => b - a on the keys *)
Ascending(keys) == [i \in Indices(keys) |-> [j \in Indices(keys) |-> keys[i] < keys[j]]]

(* a comparator that leaves the array in the order it has *)
InsertionOrder(keys) == [i \in Indices(keys) |-> [j \in Indices(keys) |-> FALSE]]

Descending(keys) == [i \in Indices(keys) |-> [j \in Indices(keys) |-> keys[i] > keys[j]]]

(* the concatenation of the sequences ss[1], ss[2], ... *)
RECURSIVE Concat(_)
Concat(ss) ==
  With({(IF Len(t) = 0 THEN <<>>
         ELSE IF Len(t) = 1 THEN t[1]
         ELSE Concat(SubSeq(t, 1, Len(t) \div 2))
              \o Concat(SubSeq(t, (Len(t) \div 2) + 1, Len(t))))
        : t \in {Array(ss)}})

(* s without the elements that occurred before: the insertion order of a   *)
(* Set or of the keys of a Map                                             *)
Keys(s) ==
  With({With({Array([k \in Indices(at) |-> t[at[k]]])
              : at \in {SelectSeq(Array([i \in Indices(t) |-> i]),
                                  LAMBDA i : \A j \in 1..(i - 1) : t[j] # t[i])}})
        : t \in {Array(s)}})

Range(s) == {s[i] : i \in Indices(s)}

(* Array.prototype.slice(0, n) *)
Slice(s, n) == SubSeq(s, 1, IF n < Len(s) THEN n ELSE Len(s))

RECURSIVE GCD(_, _)
GCD(a, b) == IF b = 0 THEN a ELSE GCD(b, a % b)

(* the quotient n / d of two integers, n >= 0, d > 0, in lowest terms *)
Rat(n, d) == [num |-> n \div GCD(n, d), den |-> d \div GCD(n, d)]

RatZero == [num |-> 0, den |-> 1]
RatOne == [num |-> 1, den |-> 1]
RatLess(x, y) == x.num * y.den < y.num * x.den

----------------------------------------------------------------------------
(* IEEE-754 binary64 values x >= 0 with x = 0 or x >= 2^-11, as             *)
(* [int, frac]: frac is the fraction in Limbs digits of base 2^LimbBits,    *)
(* most significant first. Such a value has at most 63 fraction bits, so    *)
(* the representation is exact.                                             *)

Mantissa == 53
LimbBits == 16
Limbs == 4
Base == 2 ^ LimbBits

BitLen(n) == CHOOSE k \in 0..31 : n < 2 ^ k /\ (k = 0 \/ n >= 2 ^ (k - 1))

ZeroFrac == [j \in 1..Limbs |-> 0]

DblOfInt(n) == [int |-> n, frac |-> ZeroFrac]

(* number of fraction bits kept by a significand of Mantissa bits *)
KeptBits(i, frac) ==
  IF i > 0 THEN Mantissa - BitLen(i)
  ELSE IF frac = ZeroFrac THEN Limbs * LimbBits
  ELSE LET j == CHOOSE k \in 1..Limbs : frac[k] # 0 /\ \A h \in 1..(k - 1) : frac[h] = 0
       IN (j - 1) * LimbBits + (LimbBits - BitLen(frac[j])) + Mantissa

(* bit number b (1 = first after the point) of frac *)
FracBit(frac, b) ==
  (frac[((b - 1) \div LimbBits) + 1] \div (2 ^ (LimbBits - 1 - ((b - 1) % LimbBits)))) % 2

(* frac with the bits after bit number keep cleared *)
Truncate(frac, keep) ==
  [j \in 1..Limbs |->
     IF j * LimbBits <= keep THEN frac[j]
     ELSE IF (j - 1) * LimbBits >= keep THEN 0
     ELSE frac[j] - (frac[j] % (2 ^ (j * LimbBits - keep)))]

(* frac + v at limb j: <<carry into the integer part, frac>> *)
RECURSIVE AddAt(_, _, _)
AddAt(frac, j, v) ==
  IF j = 0 THEN <<v, frac>>
  ELSE LET t == frac[j] + v
       IN AddAt([frac EXCEPT ![j] = t % Base], j - 1, t \div Base)

(* round-to-nearest, ties-to-even, of the exact value i + frac (+ a        *)
(* non-zero tail below the last limb when sticky) to Mantissa significant  *)
(* bits                                                                    *)
DblRound(i, frac, sticky) ==
  LET keep == KeptBits(i, frac)
  IN IF keep >= Limbs * LimbBits THEN [int |-> i, frac |-> frac]
     ELSE LET kept == Truncate(frac, keep)
              guard == FracBit(frac, keep + 1)
              tail == sticky \/ Truncate(frac, keep + 1) # frac
              odd == IF keep = 0 THEN i % 2 = 1 ELSE FracBit(frac, keep) = 1
          IN IF guard = 1 /\ (tail \/ odd)
             THEN IF keep = 0 THEN [int |-> i + 1, frac |-> ZeroFrac]
                  ELSE LET j == ((keep - 1) \div LimbBits) + 1
                           r == AddAt(kept, j, 2 ^ (j * LimbBits - keep))
                       IN [int |-> i + r[1], frac |-> r[2]]
             ELSE [int |-> i, frac |-> kept]

RECURSIVE PowMod(_, _, _)
PowMod(b, k, s) == IF k = 0 THEN 1 % s ELSE (b * PowMod(b, k - 1, s)) % s

(* a / b for integers a >= 0, 0 < b < 2^11: the limbs of the binary        *)
(* expansion by long division, then rounded                                *)
DblDiv(a, b) ==
  LET r(k) == ((a % b) * PowMod(Base % b, k, b)) % b
  IN DblRound(a \div b, Array([j \in 1..Limbs |-> (Base * r(j - 1)) \div b]), r(Limbs) # 0)

(* frac * n: <<carry into the integer part, frac>> *)
RECURSIVE MulFrac(_, _, _, _)
MulFrac(frac, n, j, carry) ==
  IF j = 0 THEN <<carry, frac>>
  ELSE LET t == frac[j] * n + carry
       IN MulFrac([frac EXCEPT ![j] = t % Base], n, j - 1, t \div Base)

(* x * n for a double x and an integer 0 <= n < 2^15 *)
DblMulInt(x, n) ==
  LET r == MulFrac(x.frac, n, Limbs, 0)
  IN DblRound(x.int * n + r[1], r[2], FALSE)

(* Math.floor(x) *)
DblFloor(x) == x.int

(* x - Math.floor(x): exact in binary64 *)
DblFrac(x) == [int |-> 0, frac |-> x.frac]

(* x < y *)
DblLess(x, y) ==
  \/ x.int < y.int
  \/ /\ x.int = y.int
     /\ \E j \in 1..Limbs : x.frac[j] < y.frac[j] /\ \A h \in 1..(j - 1) : x.frac[h] = y.frac[h]

(* Math.round(x): nearest integer, halves up *)
DblRoundInt(x) == x.int + (IF 2 * x.frac[1] >= Base THEN 1 ELSE 0)

----------------------------------------------------------------------------
(* distributeToTotal: largest-remainder apportionment                      *)

(* the loop of line 74 indexes order[k % order.length]: with no weights    *)
(* and a positive remainder, order[NaN] is undefined and `.i` throws       *)
distributeThrows(total, weights) == Len(weights) = 0 /\ total > 0

(* raw: the exact shares, as doubles *)
rawShares(total, weights) ==
  With({With({Array([i \in Indices(nonneg) |-> DblMulInt(DblDiv(nonneg[i], sum), total)])
              : sum \in {IF SumSeq(nonneg) = 0 THEN 1 ELSE SumSeq(nonneg)}})
        : nonneg \in {Array([i \in Indices(weights) |->
                        IF weights[i] > 0 THEN weights[i] ELSE 0])}})

(* the shares rounded down, the remainder left out *)
distributeFloor(total, weights) ==
  With({Array([i \in Indices(raw) |-> DblFloor(raw[i])])
        : raw \in {rawShares(total, weights)}})

(* the shares rounded to the nearest integer, each on its own *)
distributeRounded(total, weights) ==
  With({Array([i \in Indices(raw) |-> DblRoundInt(raw[i])])
        : raw \in {rawShares(total, weights)}})

(* the shares rounded down, one more for every entry with a fraction *)
distributeCeil(total, weights) ==
  With({Array([i \in Indices(raw) |->
                 DblFloor(raw[i]) + (IF DblLess(DblOfInt(0), DblFrac(raw[i])) THEN 1 ELSE 0)])
        : raw \in {rawShares(total, weights)}})

(* the remainder handed to the smallest fractional parts first *)
distributeSmallest(total, weights) ==
  With({With({
    (LET rem == total - SumSeq(base)
     IN Array([i \in Indices(base) |->
                 base[i] + Cardinality({k \in 0..(rem - 1) : order[(k % Len(order)) + 1] = i})]))
    : base \in {Array([i \in Indices(raw) |-> DblFloor(raw[i])])},
      order \in {SortStable(Array([i \in Indices(raw) |-> i]),
                            [a \in Indices(raw) |-> [b \in Indices(raw) |->
                               DblLess(DblFrac(raw[a]), DblFrac(raw[b]))]])}})
    : raw \in {rawShares(total, weights)}})

distributeToTotal(total, weights) ==
  With({With({
    (LET rem == total - SumSeq(base)
     IN Array([i \in Indices(base) |->
                 base[i] + Cardinality({k \in 0..(rem - 1) : order[(k % Len(order)) + 1] = i})]))
    : base \in {Array([i \in Indices(raw) |-> DblFloor(raw[i])])},
      order \in {SortStable(Array([i \in Indices(raw) |-> i]),
                            [a \in Indices(raw) |-> [b \in Indices(raw) |->
                               DblLess(DblFrac(raw[b]), DblFrac(raw[a]))]])}})
    : raw \in {rawShares(total, weights)}})

----------------------------------------------------------------------------
(* Ingestion. A raw document is represented by the values its fields       *)
(* resolve to: `item` is what strId returns (NoId for null), a date field   *)
(* is what parseDate returns (NoDate for null).                            *)

NoId == 0
NoDate == 0

(* `new Date()`: the processing time, no earlier than any event *)
Now == MaxDay

clampValue(value, min, max) ==
  IF RatLess(value, min) THEN min ELSE IF RatLess(max, value) THEN max ELSE value

viewEvents(raw, ts) ==
  IF raw.item = NoId THEN <<>>
  ELSE <<[itemId |-> raw.item,
          ts |-> IF raw.createdAt # NoDate THEN raw.createdAt ELSE ts]>>

(* the remove event dated by updatedAt even when that is no date *)
addRemoveEventsAtUpdate(raw, ts) ==
  IF raw.item = NoId THEN <<>>
  ELSE LET time == IF raw.createdAt # NoDate THEN raw.createdAt ELSE ts
       IN <<[itemId |-> raw.item, ts |-> time, add |-> 1, remove |-> 0]>>
          \o (IF raw.deleted
              THEN <<[itemId |-> raw.item, ts |-> raw.updatedAt, add |-> 0, remove |-> 1]>>
              ELSE <<>>)

(* a deleted raw item yields its remove event alone *)
addRemoveEventsMoved(raw, ts) ==
  IF raw.item = NoId THEN <<>>
  ELSE LET time == IF raw.createdAt # NoDate THEN raw.createdAt ELSE ts
           rt == IF raw.updatedAt # NoDate THEN raw.updatedAt ELSE time
       IN IF raw.deleted
          THEN <<[itemId |-> raw.item, ts |-> rt, add |-> 0, remove |-> 1]>>
          ELSE <<[itemId |-> raw.item, ts |-> time, add |-> 1, remove |-> 0]>>

(* cartItems and wishlistItems: an add event, and a remove event when the  *)
(* raw item is flagged deleted                                             *)
addRemoveEvents(raw, ts) ==
  IF raw.item = NoId THEN <<>>
  ELSE LET time == IF raw.createdAt # NoDate THEN raw.createdAt ELSE ts
           rt == IF raw.updatedAt # NoDate THEN raw.updatedAt ELSE time
       IN <<[itemId |-> raw.item, ts |-> time, add |-> 1, remove |-> 0]>>
          \o (IF raw.deleted
              THEN <<[itemId |-> raw.item, ts |-> rt, add |-> 0, remove |-> 1]>>
              ELSE <<>>)

(* every cart event counted as an add *)
cartAddsByLength(carts) == Len(carts)

(* nCartAdd: carts.reduce((acc, evt) => acc + (evt.add ?? 0), 0) *)
cartAdds(carts) == SumSeq([i \in Indices(carts) |-> carts[i].add])

collectSessionEvents(doc) ==
  LET ts == IF doc.createdAt # NoDate THEN doc.createdAt ELSE Now
  IN With({
       [sessionId |-> doc.id,
        ts |-> ts,
        nView |-> Len(views),
        nCartAdd |-> cartAdds(carts),
        nCartRemove |-> SumSeq([i \in Indices(carts) |-> carts[i].remove]),
        uniqueItems |-> Keys([i \in Indices(views) |-> views[i].itemId]
                             \o [i \in Indices(carts) |-> carts[i].itemId]
                             \o [i \in Indices(wish) |-> wish[i].itemId]),
        views |-> views,
        carts |-> carts,
        wish |-> wish]
       : views \in {Concat([at \in Indices(doc.viewItems) |->
                              viewEvents(doc.viewItems[at], ts)])},
         carts \in {Concat([at \in Indices(doc.cartItems) |->
                              addRemoveEvents(doc.cartItems[at], ts)])},
         wish \in {Concat([at \in Indices(doc.wishlistItems) |->
                             addRemoveEvents(doc.wishlistItems[at], ts)])}})

----------------------------------------------------------------------------
(* Item metadata: a function from the listed item ids to [price, category] *)

priceOf(itemMeta, id) == IF id \in DOMAIN itemMeta THEN itemMeta[id].price ELSE 0

categoryOf(itemMeta, id) ==
  IF id \in DOMAIN itemMeta THEN itemMeta[id].category ELSE "Other"

----------------------------------------------------------------------------
(* Cart leak                                                               *)

leakBefore(a, b) ==
  RatLess(b.leak, a.leak) \/ (a.leak = b.leak /\ a.removes > b.removes)

(* rows.sort((a, b) => b.leak - a.leak || b.removes - a.removes) *)
leakSorted(rows) ==
  SortStable(rows, [i \in Indices(rows) |-> [j \in Indices(rows) |->
                      leakBefore(rows[i], rows[j])]])

leakAnalytics(sessions, itemMeta) ==
  With({With({
    (LET adds(key) == SumSeq([i \in Indices(evts) |->
                                IF evts[i].itemId = key THEN evts[i].add ELSE 0])
         removes(key) == SumSeq([i \in Indices(evts) |->
                                   IF evts[i].itemId = key THEN evts[i].remove ELSE 0])
         tAdds == SumSeq([i \in Indices(evts) |-> evts[i].add])
         tRem == SumSeq([i \in Indices(evts) |-> evts[i].remove])
     IN [overall |-> IF tAdds > 0 THEN clampValue(Rat(tRem, tAdds), RatZero, RatOne)
                     ELSE RatZero,
         items |-> leakSorted(Array([i \in Indices(keys) |->
                     [item |-> keys[i],
                      adds |-> adds(keys[i]),
                      removes |-> removes(keys[i]),
                      leak |-> IF adds(keys[i]) > 0
                               THEN clampValue(Rat(removes(keys[i]), adds(keys[i])),
                                               RatZero, RatOne)
                               ELSE RatZero]]))])
    : keys \in {With({Keys([i \in Indices(addEvts) |-> addEvts[i].itemId]
                           \o [i \in Indices(remEvts) |-> remEvts[i].itemId])
                      : addEvts \in {SelectSeq(evts, LAMBDA e : e.add # 0)},
                        remEvts \in {SelectSeq(evts, LAMBDA e : e.remove # 0)}})}})
    : evts \in {Concat([at \in Indices(sessions) |-> sessions[at].carts])}})

----------------------------------------------------------------------------
(* Category interactions                                                   *)

TopCategories == 20

(* sort((a, b) => b.total - a.total) *)
sortByTotal(rows) == SortStable(rows, Descending([i \in Indices(rows) |-> rows[i].total]))

(* bumps: the calls of bump(category, key), in order *)
categoryInteractions(sessions, itemMeta) ==
  With({With({
    (LET n(category, key) ==
           Cardinality({at \in Indices(bumps) :
                          bumps[at].category = category /\ bumps[at].key = key})
     IN Slice(sortByTotal(Array([i \in Indices(cats) |->
                [category |-> cats[i],
                 views |-> n(cats[i], "views"),
                 carts |-> n(cats[i], "carts"),
                 wish |-> n(cats[i], "wish"),
                 total |-> Cardinality({at \in Indices(bumps) :
                                          bumps[at].category = cats[i]})]])),
              TopCategories))
    : cats \in {Keys([i \in Indices(bumps) |-> bumps[i].category])}})
    : bumps \in {Concat([at \in Indices(sessions) |->
        [i \in Indices(sessions[at].views) |->
           [category |-> categoryOf(itemMeta, sessions[at].views[i].itemId), key |-> "views"]]
        \o Concat([c \in Indices(sessions[at].carts) |->
             IF sessions[at].carts[c].add # 0
             THEN <<[category |-> categoryOf(itemMeta, sessions[at].carts[c].itemId),
                     key |-> "carts"]>>
             ELSE <<>>])
        \o Concat([w \in Indices(sessions[at].wish) |->
             IF sessions[at].wish[w].add # 0
             THEN <<[category |-> categoryOf(itemMeta, sessions[at].wish[w].itemId),
                     key |-> "wish"]>>
             ELSE <<>>])])}})

----------------------------------------------------------------------------
(* Event sequence model                                                    *)

States == <<"cart_add", "cart_remove", "view", "wishlist_add", "wishlist_remove">>

StateIdx == 0..(Len(States) - 1)

(* the function f with its values computed *)
Table(f) == f @@ <<>>

(* index[type]: 0-based, as in the source *)
index(type) == (CHOOSE i \in Indices(States) : States[i] = type) - 1

buildEventStreamForSession(session, itemMeta) ==
  With({SortStable(events, Ascending([i \in Indices(events) |-> events[i].ts]))
        : events \in {
            LET ev(e, type) == [ts |-> e.ts, type |-> type, itemId |-> e.itemId,
                                price |-> priceOf(itemMeta, e.itemId)]
            IN [i \in Indices(session.views) |-> ev(session.views[i], "view")]
               \o Concat([c \in Indices(session.carts) |->
                    (IF session.carts[c].add # 0
                     THEN <<ev(session.carts[c], "cart_add")>> ELSE <<>>)
                    \o (IF session.carts[c].remove # 0
                        THEN <<ev(session.carts[c], "cart_remove")>> ELSE <<>>)])
               \o Concat([w \in Indices(session.wish) |->
                    (IF session.wish[w].add # 0
                     THEN <<ev(session.wish[w], "wishlist_add")>> ELSE <<>>)
                    \o (IF session.wish[w].remove # 0
                        THEN <<ev(session.wish[w], "wishlist_remove")>> ELSE <<>>)])}})

(* the row divided by its sum plus one *)
rowProbsSmoothed(row) ==
  With({Table([j \in StateIdx |-> IF sum # 0 THEN Rat(row[j], sum + 1) ELSE RatZero])
        : sum \in {SumSeq([k \in 1..Len(States) |-> row[k - 1]])}})

rowProbs(row) ==
  With({Table([j \in StateIdx |-> IF sum # 0 THEN Rat(row[j], sum) ELSE RatZero])
        : sum \in {SumSeq([k \in 1..Len(States) |-> row[k - 1]])}})

(* the links with the self-loops kept *)
linksWithLoops(counts, loops) ==
  SelectSeq([k \in 1..(Len(States) * Len(States)) |->
               [source |-> (k - 1) \div Len(States),
                target |-> (k - 1) % Len(States),
                value |-> counts[(k - 1) \div Len(States)][(k - 1) % Len(States)]]],
            LAMBDA c : c.value > 0)

linksOf(counts, loops) ==
  SelectSeq([k \in 1..(Len(States) * Len(States)) |->
               [source |-> (k - 1) \div Len(States),
                target |-> (k - 1) % Len(States),
                value |-> counts[(k - 1) \div Len(States)][(k - 1) % Len(States)]]],
            LAMBDA c : c.value > 0 /\ (loops \/ c.source # c.target))

transitionMatrixAndSankey(sessions, itemMeta) ==
  With({With({
    [states |-> States,
     counts |-> counts,
     probs |-> Table([i \in StateIdx |-> rowProbs(counts[i])]),
     sankey |-> [nodes |-> States, links |-> linksOf(counts, TRUE)],
     allTransitions |-> transitions]
    : counts \in {Table([ia \in StateIdx |-> Table([ib \in StateIdx |->
                    Cardinality({at \in Indices(transitions) :
                                   /\ index(transitions[at].from.type) = ia
                                   /\ index(transitions[at].to.type) = ib})])])}})
    : transitions \in {Concat([at \in Indices(sessions) |->
        With({[i \in 1..(Len(events) - 1) |-> [from |-> events[i], to |-> events[i + 1]]]
              : events \in {buildEventStreamForSession(sessions[at], itemMeta)}})])}})

----------------------------------------------------------------------------
(* Daily trend and anomaly thresholds. A threshold mean +- 2 * deviation   *)
(* is the real number m + c * sqrt(v), kept as [m, c, v] with m and v      *)
(* fractions.                                                              *)

SurdZero == [m |-> RatZero, c |-> 0, v |-> RatZero]

(* the sign of x - k for a threshold x and an integer k *)
SurdCmpInt(x, k) ==
  LET an == x.m.num - k * x.m.den
      lhs == x.c * x.c * x.v.num * x.m.den * x.m.den
      rhs == an * an * x.v.den
      sgn(z) == IF z > 0 THEN 1 ELSE IF z < 0 THEN -1 ELSE 0
  IN IF x.c = 0 \/ x.v.num = 0 THEN sgn(an)
     ELSE IF x.c > 0 THEN (IF an >= 0 THEN 1 ELSE sgn(lhs - rhs))
     ELSE (IF an <= 0 THEN -1 ELSE sgn(rhs - lhs))

(* thresholds without the three-bucket minimum *)
hasThresholdsEager(n, variance) == variance.num > 0

(* cartCounts.length >= 3 && std > 0 *)
hasThresholds(n, variance) == n >= 3 /\ variance.num > 0

(* every event counted on the day of the call *)
dayKeyToday(date) == Now

(* the calendar day of an event; today for an event without a timestamp *)
dayKey(date) == IF date = NoDate THEN Now ELSE date

(* marks: the days bumped, in order, each with the counter bumped *)
dailyTrends(sessions) ==
  With({With({With({
    (LET n == Len(cartCounts)
         total == SumSeq(cartCounts)
         squares == SumSeq([i \in Indices(cartCounts) |-> cartCounts[i] * cartCounts[i]])
         avg == IF n > 0 THEN Rat(total, n) ELSE RatZero
         variance == IF n > 1 THEN Rat(n * squares - total * total, n * (n - 1)) ELSE RatZero
         below == [m |-> avg, c |-> -2, v |-> variance]
         lower == IF avg.num > 0
                  THEN (IF SurdCmpInt(below, 0) >= 0 THEN below ELSE SurdZero)
                  ELSE SurdZero
         upper == [m |-> avg, c |-> 2, v |-> variance]
         flagged == SelectSeq(series, LAMBDA row :
                      SurdCmpInt(lower, row.carts) > 0 \/ SurdCmpInt(upper, row.carts) < 0)
     IN [series |-> series,
         anomaly |-> [hasThresholds |-> hasThresholds(n, variance),
                      lower |-> lower,
                      upper |-> upper,
                      outliers |-> IF hasThresholds(n, variance)
                                   THEN [i \in Indices(flagged) |-> flagged[i].date]
                                   ELSE <<>>]])
    : cartCounts \in {Array([i \in Indices(series) |-> series[i].carts])}})
    : series \in {
        With({SortStable(byDay, Ascending([i \in Indices(byDay) |-> byDay[i].date]))
              : byDay \in {
                  With({Array([i \in Indices(days) |->
                          [date |-> days[i],
                           views |-> Cardinality({at \in Indices(marks) :
                                      marks[at].date = days[i] /\ marks[at].key = "views"}),
                           carts |-> Cardinality({at \in Indices(marks) :
                                      marks[at].date = days[i] /\ marks[at].key = "carts"})]])
                        : days \in {Keys([i \in Indices(marks) |-> marks[i].date])}})}})}})
    : marks \in {Concat([at \in Indices(sessions) |->
        [i \in Indices(sessions[at].views) |->
           [date |-> dayKey(sessions[at].views[i].ts), key |-> "views"]]
        \o Concat([c \in Indices(sessions[at].carts) |->
             IF sessions[at].carts[c].add # 0
             THEN <<[date |-> dayKey(sessions[at].carts[c].ts), key |-> "carts"]>>
             ELSE <<>>])])}})

----------------------------------------------------------------------------
(* Recommendations. A score support / sqrt(freq(a) * freq(b)) is kept as   *)
(* its square, a fraction: scores are >= 0, so order and equality are the  *)
(* same.                                                                   *)

TopRecos == 10
TopBundles == 15

(* a pair listed under its first item only *)
partnersOneWay(entries, id) ==
  Concat([at \in Indices(entries) |->
            IF entries[at].key[1] = id
            THEN <<[item |-> entries[at].key[2], score |-> entries[at].score]>>
            ELSE <<>>])

(* recos[id] before the sort *)
partners(entries, id) ==
  Concat([at \in Indices(entries) |->
            IF entries[at].key[1] = id
            THEN <<[item |-> entries[at].key[2], score |-> entries[at].score]>>
            ELSE IF entries[at].key[2] = id
            THEN <<[item |-> entries[at].key[1], score |-> entries[at].score]>>
            ELSE <<>>])

(* found: the keys bumped in pairs, in order; entries: pairs.entries(),    *)
(* each with its score                                                     *)
cooccurrenceRecos(sessions) ==
  With({With({
    [recos |->
       [id \in UNION {{entries[at].key[1], entries[at].key[2]} : at \in Indices(entries)} |->
          With({Slice(SortStable(list, [x \in Indices(list) |-> [y \in Indices(list) |->
                                          RatLess(list[y].score, list[x].score)]]),
                      TopRecos)
                : list \in {partners(entries, id)}})],
     bundles |->
       With({Array([i \in Indices(ranked) |->
               [items |-> ranked[i].key, support |-> DblOfInt(ranked[i].support)]])
             : ranked \in {Slice(SortStable(entries,
                                   Descending([i \in Indices(entries) |-> entries[i].support])),
                                 TopBundles)}})]
    : entries \in {
        With({(LET freq(id) == Cardinality({at \in Indices(sessions) :
                                  id \in Range(sessions[at].uniqueItems)})
                   support(key) == Cardinality({at \in Indices(found) : found[at] = key})
               IN Array([i \in Indices(pairs) |->
                    [key |-> pairs[i],
                     support |-> support(pairs[i]),
                     score |-> Rat(support(pairs[i]) * support(pairs[i]),
                                   freq(pairs[i][1]) * freq(pairs[i][2]))]]))
              : pairs \in {Keys(found)}})}})
    : found \in {Concat([at \in Indices(sessions) |->
        Concat([i \in Indices(sessions[at].uniqueItems) |->
          [d \in 1..(Len(sessions[at].uniqueItems) - i) |->
             IF sessions[at].uniqueItems[i] < sessions[at].uniqueItems[i + d]
             THEN <<sessions[at].uniqueItems[i], sessions[at].uniqueItems[i + d]>>
             ELSE <<sessions[at].uniqueItems[i + d], sessions[at].uniqueItems[i]>>]])])}})

----------------------------------------------------------------------------
(* Price tiers. quantileSorted (d3-array) interpolates between two         *)
(* neighbours of the sorted values: the result is the cell [lo, hi, k],    *)
(* the value lo + (hi - lo) * k / 100, taken on the prices (log = FALSE)   *)
(* or on their log1p, then mapped back by expm1 (log = TRUE). Prices are   *)
(* integers, so a cell with lo < hi lies strictly between them.            *)

NullCell == [null |-> TRUE, log |-> FALSE, lo |-> 0, hi |-> 0, k |-> 0]

ZeroCell == [null |-> FALSE, log |-> FALSE, lo |-> 0, hi |-> 0, k |-> 0]

quantileSorted(values, pct, log) ==
  LET n == Len(values)
      i0 == ((n - 1) * pct) \div 100
      k == ((n - 1) * pct) % 100
  IN IF n = 0 THEN NullCell
     ELSE IF n < 2 \/ k = 0 \/ values[i0 + 1] = values[i0 + 2]
     THEN [null |-> FALSE, log |-> log, lo |-> values[i0 + 1], hi |-> values[i0 + 1], k |-> 0]
     ELSE [null |-> FALSE, log |-> log, lo |-> values[i0 + 1], hi |-> values[i0 + 2], k |-> k]

(* the sign of Math.expm1(Math.log1p(p)) - p for a price p: the round trip *)
(* through the logarithm is not exact (fdlibm: 2 comes back as             *)
(* 1.9999999999999996, 8 as 8.000000000000002)                             *)
roundTrip(p) ==
  IF p \in {2, 4, 7, 15, 17, 18, 19} THEN -1
  ELSE IF p \in {8, 9, 10, 13} THEN 1
  ELSE 0

(* price <= cell, for an integer price: a cell on the logarithms that is   *)
(* one of the prices holds the round trip of that price                    *)
priceLeq(price, cell) ==
  IF cell.log /\ cell.lo = cell.hi /\ price = cell.lo THEN roundTrip(price) >= 0
  ELSE price <= cell.lo

(* cell <= price, for an integer price *)
priceGeq(price, cell) == IF cell.lo = cell.hi THEN price >= cell.lo ELSE price >= cell.hi

robustPriceSplits(prices) ==
  IF prices = <<>>
  THEN [tLow |-> NullCell, tHigh |-> NullCell, dispMin |-> ZeroCell, dispMax |-> ZeroCell]
  ELSE With({
    (LET p05 == quantileSorted(sorted, 5, FALSE)
         p95 == quantileSorted(sorted, 95, FALSE)
         clipped == SelectSeq(sorted, LAMBDA value :
                      priceGeq(value, p05) /\ priceLeq(value, p95))
     IN [tLow |-> quantileSorted(clipped, 33, TRUE),
         tHigh |-> quantileSorted(clipped, 66, TRUE),
         dispMin |-> p05,
         dispMax |-> p95])
    : sorted \in {SortStable(prices, Ascending(prices))}})

(* Object.values(itemMeta).map(meta => meta.price || 0), in key order *)
RECURSIVE pricesOf(_, _)
pricesOf(itemMeta, ids) ==
  IF ids = {} THEN <<>>
  ELSE With({<<itemMeta[least].price>> \o pricesOf(itemMeta, ids \ {least})
             : least \in {CHOOSE x \in ids : \A y \in ids : x <= y}})

alpha == 1

(* tierForItem(id), for the thresholds of the split *)
tierForItem(itemMeta, split, id) ==
  IF split.tLow.null \/ split.tHigh.null \/ split.tLow = split.tHigh THEN "All"
  ELSE IF priceLeq(priceOf(itemMeta, id), split.tLow) THEN "Low"
  ELSE IF priceLeq(priceOf(itemMeta, id), split.tHigh) THEN "Mid"
  ELSE "High"

(* state(tier): tiers.get(tier) after the loop over the sessions, for a    *)
(* tier that a view or a cart event has entered                            *)
priceSegmentedMarkov(sessions, itemMeta) ==
  With({
    (LET tier(id) == tierForItem(itemMeta, split, id)
         viewed(s, t) == \E i \in Indices(s.views) : tier(s.views[i].itemId) = t
         added(s, t) ==
           \E i \in Indices(s.carts) : s.carts[i].add # 0 /\ tier(s.carts[i].itemId) = t
         entered(t) ==
           \E at \in Indices(sessions) :
              \/ viewed(sessions[at], t)
              \/ \E i \in Indices(sessions[at].carts) : tier(sessions[at].carts[i].itemId) = t
         state(t) ==
           [nViewSess |-> Cardinality({at \in Indices(sessions) : viewed(sessions[at], t)}),
            nViewThenCartSess |->
              Cardinality({at \in Indices(sessions) :
                             viewed(sessions[at], t) /\ added(sessions[at], t)}),
            adds |-> SumSeq(Concat([at \in Indices(sessions) |->
                       [i \in Indices(sessions[at].carts) |->
                          IF tier(sessions[at].carts[i].itemId) = t
                          THEN sessions[at].carts[i].add ELSE 0]])),
            removes |-> SumSeq(Concat([at \in Indices(sessions) |->
                          [i \in Indices(sessions[at].carts) |->
                             IF tier(sessions[at].carts[i].itemId) = t
                             THEN sessions[at].carts[i].remove ELSE 0]]))]
         overall ==
           [nViewSess |-> Cardinality({at \in Indices(sessions) : sessions[at].views # <<>>}),
            nViewThenCartSess |->
              Cardinality({at \in Indices(sessions) :
                             /\ sessions[at].views # <<>>
                             /\ \E i \in Indices(sessions[at].carts) :
                                   sessions[at].carts[i].add # 0}),
            adds |-> SumSeq(Concat([at \in Indices(sessions) |->
                       [i \in Indices(sessions[at].carts) |-> sessions[at].carts[i].add]])),
            removes |-> SumSeq(Concat([at \in Indices(sessions) |->
                          [i \in Indices(sessions[at].carts) |->
                             sessions[at].carts[i].remove]]))]
         entry(st) ==
           [pViewToCart |-> IF st.nViewSess > 0
                            THEN Rat(st.nViewThenCartSess, st.nViewSess)
                            ELSE RatZero,
            pCartToCheckout |-> clampValue(Rat(st.adds - st.removes,
                                               IF st.adds > 0 THEN st.adds ELSE 1),
                                           RatZero, RatOne)]
         initial == [pViewToCart |-> RatZero, pCartToCheckout |-> RatZero]
     IN [model |-> [Low |-> IF entered("Low") THEN entry(state("Low")) ELSE initial,
                    Mid |-> IF entered("Mid") THEN entry(state("Mid")) ELSE initial,
                    High |-> IF entered("High") THEN entry(state("High")) ELSE initial,
                    All |-> entry(overall)],
         tLow |-> split.tLow,
         tHigh |-> split.tHigh,
         min |-> split.dispMin,
         max |-> split.dispMax])
    : split \in {robustPriceSplits(pricesOf(itemMeta, DOMAIN itemMeta))}})

bandForPrice(price, split) ==
  IF priceLeq(price, split.tLow) THEN "Low"
  ELSE IF priceLeq(price, split.tHigh) THEN "Mid"
  ELSE "High"

priceBandsFromQuantiles(itemMeta, transitions) ==
  With({
    (LET total(name, type) ==
           Cardinality({at \in Indices(transitions) :
                          /\ bandForPrice(transitions[at].from.price, split) = name
                          /\ transitions[at].from.type = type})
         hits(name, type) ==
           Cardinality({at \in Indices(transitions) :
                          /\ bandForPrice(transitions[at].from.price, split) = name
                          /\ transitions[at].from.type = type
                          /\ transitions[at].to.type = "cart_add"})
         rate(name, type) ==
           IF total(name, type) # 0
           THEN Rat(hits(name, type) + alpha, total(name, type) + 2 * alpha)
           ELSE RatZero
         band(name, min, max) ==
           [name |-> name, min |-> min, max |-> max,
            viewToCart |-> rate(name, "view"),
            wishToCart |-> rate(name, "wishlist_add"),
            nView |-> total(name, "view"),
            nWish |-> total(name, "wishlist_add")]
     IN IF split.tLow.null \/ split.tHigh.null \/ split.tLow = split.tHigh
        THEN [bands |-> <<[name |-> "All", min |-> split.dispMin, max |-> split.dispMax,
                           viewToCart |-> RatZero, wishToCart |-> RatZero,
                           nView |-> 0, nWish |-> 0]>>]
        ELSE [bands |-> <<band("Low", split.dispMin, split.tLow),
                          band("Mid", split.tLow, split.tHigh),
                          band("High", split.tHigh, split.dispMax)>>])
    : split \in {robustPriceSplits(pricesOf(itemMeta, DOMAIN itemMeta))}})

buildPriceRangeData(sessions, itemMeta, transitions) ==
  With({
    [viewFromPrices |-> Array([i \in Indices(fromView) |-> fromView[i].from.price]),
     viewToCartFromPrices |->
       With({Array([i \in Indices(toCart) |-> toCart[i].from.price])
             : toCart \in {SelectSeq(fromView, LAMBDA t : t.to.type = "cart_add")}}),
     cartAddPrices |->
       With({Array([i \in Indices(added) |-> priceOf(itemMeta, added[i].itemId)])
             : added \in {SelectSeq(evts, LAMBDA e : e.add # 0)}}),
     cartRemovePrices |->
       With({Array([i \in Indices(removed) |-> priceOf(itemMeta, removed[i].itemId)])
             : removed \in {SelectSeq(evts, LAMBDA e : e.remove # 0)}})]
    : fromView \in {SelectSeq(transitions, LAMBDA t : t.from.type = "view")},
      evts \in {Concat([at \in Indices(sessions) |-> sessions[at].carts])}})

----------------------------------------------------------------------------
(* The bundle                                                              *)

computeAnalyticsFromDocs(trackingDocs, itemMeta) ==
  With({With({
    [sessions |-> Array([i \in Indices(sessions) |->
                    [sessionId |-> sessions[i].sessionId,
                     ts |-> sessions[i].ts,
                     nView |-> sessions[i].nView,
                     nCartAdd |-> sessions[i].nCartAdd,
                     nCartRemove |-> sessions[i].nCartRemove]]),
     leak |-> leakAnalytics(sessions, itemMeta),
     recos |-> reco.recos,
     frequentBundles |-> reco.bundles,
     priceMarkov |-> markov.model,
     priceMarkovMeta |-> [tLow |-> markov.tLow, tHigh |-> markov.tHigh,
                          min |-> markov.min, max |-> markov.max],
     priceBands |-> priceBandsFromQuantiles(itemMeta, transitionInfo.allTransitions),
     priceRangeData |-> buildPriceRangeData(sessions, itemMeta, transitionInfo.allTransitions),
     categoryInteractions |-> categoryInteractions(sessions, itemMeta),
     transitions |-> [states |-> transitionInfo.states,
                      counts |-> transitionInfo.counts,
                      probs |-> transitionInfo.probs],
     sankey |-> transitionInfo.sankey,
     daily |-> dailyTrends(sessions),
     itemMeta |-> itemMeta]
    : reco \in {cooccurrenceRecos(sessions)},
      markov \in {priceSegmentedMarkov(sessions, itemMeta)},
      transitionInfo \in {transitionMatrixAndSankey(sessions, itemMeta)}})
    : sessions \in {Array([i \in Indices(trackingDocs) |->
                      collectSessionEvents(trackingDocs[i])])}})

----------------------------------------------------------------------------
(* Date-range reprojection                                                 *)

(* clamp(v, 0, 1) of a double *)
clamp(v, min, max) ==
  IF DblLess(v, DblOfInt(min)) THEN DblOfInt(min)
  ELSE IF DblLess(DblOfInt(max), v) THEN DblOfInt(max)
  ELSE v

(* the lower bound left out of the range *)
inRangeAbove(d, fromDate, toDate) == d > fromDate /\ d <= toDate

(* the upper bound left out of the range *)
inRangeBelow(d, fromDate, toDate) == d >= fromDate /\ d < toDate

inRange(d, fromDate, toDate) == d >= fromDate /\ d <= toDate

(* ratio: the share of the source sessions that the range keeps *)
ratioOf(sessions, data) == clamp(DblDiv(Len(sessions), Len(data.sessions)), 0, 1)

unitMatrix == [i \in StateIdx |-> [j \in StateIdx |-> IF i = j THEN 1 ELSE 0]]

emptyMatrix == [i \in StateIdx |-> [j \in StateIdx |-> 0]]

(* the apportionments of lines 172, 173 and 195 index an empty `order`     *)
(* when the source bundle has no row and the total is positive             *)
reprojectThrows(data, fromDate, toDate) ==
  With({
    (LET totalAdds == SumSeq([i \in Indices(sessions) |-> sessions[i].nCartAdd])
         totalRemoves == SumSeq([i \in Indices(sessions) |-> sessions[i].nCartRemove])
     IN /\ sessions # <<>>
        /\ \/ distributeThrows(totalAdds, data.leak.items)
           \/ distributeThrows(totalRemoves, data.leak.items)
           \/ distributeThrows(totalAdds, data.categoryInteractions))
    : sessions \in {SelectSeq(data.sessions, LAMBDA s : inRange(s.ts, fromDate, toDate))}})

reprojectForDateRange(data, fromDate, toDate) ==
  With({
    IF sessions = <<>>
    THEN [data EXCEPT
            !.sessions = <<>>,
            !.daily = [data.daily EXCEPT !.series = <<>>],
            !.leak = [overall |-> RatZero, items |-> <<>>],
            !.categoryInteractions = <<>>,
            !.recos = <<>>,
            !.frequentBundles = <<>>,
            !.priceRangeData = [viewFromPrices |-> <<>>, viewToCartFromPrices |-> <<>>,
                                cartAddPrices |-> <<>>, cartRemovePrices |-> <<>>],
            !.priceBands = [bands |-> <<>>],
            !.transitions = [states |-> States, counts |-> emptyMatrix, probs |->
                               [i \in StateIdx |-> [j \in StateIdx |-> RatZero]]],
            !.sankey = [nodes |-> States, links |-> <<>>]]
    ELSE With({With({
      (LET scaled(c) == DblRoundInt(DblMulInt(ratio, c))
           scaleArray(arr) == Slice(arr, scaled(Len(arr)))
       IN [data EXCEPT
             !.sessions = sessions,
             !.daily = [data.daily EXCEPT !.series =
                          SelectSeq(data.daily.series,
                                    LAMBDA r : inRange(r.date, fromDate, toDate))],
             !.leak =
                [overall |-> IF totalAdds > 0 THEN Rat(totalRemoves, totalAdds) ELSE RatZero,
                 items |-> leakSorted(Array([idx \in Indices(data.leak.items) |->
                   [item |-> data.leak.items[idx].item,
                    adds |-> addsAlloc[idx],
                    removes |-> remsAlloc[idx],
                    leak |-> IF addsAlloc[idx] > 0
                             THEN Rat(remsAlloc[idx], addsAlloc[idx])
                             ELSE RatZero]]))],
             !.categoryInteractions =
                sortByTotal(Array([idx \in Indices(data.categoryInteractions) |->
                  With({[category |-> data.categoryInteractions[idx].category,
                         views |-> views,
                         carts |-> cartsAlloc[idx],
                         wish |-> wish,
                         total |-> views + wish + cartsAlloc[idx]]
                        : views \in {scaled(data.categoryInteractions[idx].views)},
                          wish \in {scaled(data.categoryInteractions[idx].wish)}})])),
             !.priceRangeData =
                [viewFromPrices |-> scaleArray(data.priceRangeData.viewFromPrices),
                 viewToCartFromPrices |-> scaleArray(data.priceRangeData.viewToCartFromPrices),
                 cartAddPrices |-> scaleArray(data.priceRangeData.cartAddPrices),
                 cartRemovePrices |-> scaleArray(data.priceRangeData.cartRemovePrices)],
             !.priceBands = [bands |-> Array([i \in Indices(data.priceBands.bands) |->
                               [data.priceBands.bands[i] EXCEPT
                                  !.nView = scaled(data.priceBands.bands[i].nView),
                                  !.nWish = scaled(data.priceBands.bands[i].nWish)]])],
             !.transitions = [states |-> data.transitions.states,
                              counts |-> scaledCounts,
                              probs |-> Table([i \in StateIdx |-> rowProbs(scaledCounts[i])])],
             !.sankey = [nodes |-> data.sankey.nodes, links |-> linksOf(scaledCounts, FALSE)],
             !.recos = data.recos,
             !.frequentBundles = Array([i \in Indices(data.frequentBundles) |->
                [data.frequentBundles[i] EXCEPT
                   !.support = DblMulInt(ratio, data.frequentBundles[i].support.int)]])])
      : scaledCounts \in {Table([i \in StateIdx |-> Table([j \in StateIdx |->
                             DblRoundInt(DblMulInt(ratio, data.transitions.counts[i][j]))])])},
        addsAlloc \in {distributeToTotal(totalAdds,
                         [i \in Indices(data.leak.items) |-> data.leak.items[i].adds])},
        remsAlloc \in {distributeToTotal(totalRemoves,
                         [i \in Indices(data.leak.items) |-> data.leak.items[i].removes])},
        cartsAlloc \in {distributeToTotal(totalAdds,
                          [i \in Indices(data.categoryInteractions) |->
                             data.categoryInteractions[i].carts])}})
      : ratio \in {ratioOf(sessions, data)},
        totalAdds \in {SumSeq([i \in Indices(sessions) |-> sessions[i].nCartAdd])},
        totalRemoves \in {SumSeq([i \in Indices(sessions) |-> sessions[i].nCartRemove])}})
    : sessions \in {SelectSeq(data.sessions, LAMBDA s : inRange(s.ts, fromDate, toDate))}})

----------------------------------------------------------------------------
(* Raw documents. A JavaScript value is a record with its type t and its   *)
(* payload:   [t |-> "undefined"], [t |-> "null"], a string with its       *)
(* characters, a number with an integer, [t |-> "NaN"], [t |-> "Infinity"], *)
(* a boolean, an ObjectId with its 24 hex digits as one character, or an   *)
(* object with its address in the heap. heap[a] holds the values of the    *)
(* keys $oid and _id of the object at a, [t |-> "absent"] for a key the    *)
(* object does not have.                                                   *)

(* !value *)
falsy(value) ==
  \/ value.t \in {"absent", "undefined", "null", "NaN"}
  \/ value.t = "string" /\ value.v = <<>>
  \/ value.t = "number" /\ value.n = 0
  \/ value.t = "boolean" /\ ~value.b

(* String.prototype.trim *)
RECURSIVE trim(_)
trim(s) ==
  IF s # <<>> /\ Head(s) = " " THEN trim(Tail(s))
  ELSE IF s # <<>> /\ s[Len(s)] = " " THEN trim(SubSeq(s, 1, Len(s) - 1))
  ELSE s

(* Number(value): a string is trimmed and read as a signed decimal integer *)
Number(value) ==
  IF value.t \in {"number", "NaN", "Infinity"} THEN value
  ELSE IF value.t = "null" THEN [t |-> "number", n |-> 0]
  ELSE IF value.t = "boolean" THEN [t |-> "number", n |-> IF value.b THEN 1 ELSE 0]
  ELSE IF value.t = "string"
  THEN LET s == trim(value.v)
           digits == IF s # <<>> /\ Head(s) \in {"-", "+"} THEN Tail(s) ELSE s
           digit(c) == CHOOSE d \in 0..9 : <<"0", "1", "2", "3", "4", "5", "6", "7", "8", "9">>[d + 1] = c
           read[k \in 0..Len(digits)] ==
             IF k = 0 THEN 0 ELSE 10 * read[k - 1] + digit(digits[k])
       IN IF s = <<>> THEN [t |-> "number", n |-> 0]
          ELSE IF digits = <<>>
                  \/ \E k \in Indices(digits) :
                       digits[k] \notin {"0", "1", "2", "3", "4", "5", "6", "7", "8", "9"}
          THEN [t |-> "NaN"]
          ELSE [t |-> "number",
                n |-> IF Head(s) = "-" THEN 0 - read[Len(digits)] ELSE read[Len(digits)]]
  ELSE [t |-> "NaN"]

(* a circular reference answered with the fallback String(value) *)
RECURSIVE strIdFallback(_, _, _)
strIdFallback(heap, value, seen) ==
  IF falsy(value) THEN [t |-> "null"]
  ELSE IF value.t \in {"string", "ObjectId"} THEN [t |-> "string", v |-> value.v]
  ELSE IF value.at \in seen THEN [t |-> "string", v |-> <<"[object Object]">>]
  ELSE IF heap[value.at].oid.t = "string" THEN heap[value.at].oid
  ELSE IF heap[value.at].id.t # "absent"
  THEN strIdFallback(heap, heap[value.at].id, seen \cup {value.at})
  ELSE [t |-> "string", v |-> <<"[object Object]">>]

(* strId(value, seen) of a string, an ObjectId or a plain object: a string *)
(* value or [t |-> "null"]                                                 *)
RECURSIVE strId(_, _, _)
strId(heap, value, seen) ==
  IF falsy(value) THEN [t |-> "null"]
  ELSE IF value.t \in {"string", "ObjectId"} THEN [t |-> "string", v |-> value.v]
  ELSE IF value.at \in seen THEN [t |-> "null"]
  ELSE IF heap[value.at].oid.t = "string" THEN heap[value.at].oid
  ELSE IF heap[value.at].id.t # "absent"
  THEN strId(heap, heap[value.at].id, seen \cup {value.at})
  ELSE [t |-> "string", v |-> <<"[object Object]">>]

(* the entry of one listing: the null id alone when its _id does not       *)
(* resolve. The                                                            *)
(* listing record holds _id, prodPricing.retailPrice, the retailPrice of   *)
(* the first listing without stock variations, productInfo.productCategory, *)
(* prodTechInfo.type and the value of the first productInfo.brand          *)
buildItemMeta(heap, listing, categoryMap) ==
  LET id == strId(heap, listing.id, {})
      given == IF listing.retailPrice.t \notin {"absent", "undefined", "null"}
               THEN listing.retailPrice
               ELSE IF listing.variationPrice.t \notin {"absent", "undefined", "null"}
               THEN listing.variationPrice
               ELSE [t |-> "number", n |-> 0]
      price == IF given.t \in {"number", "Infinity"} THEN given
               ELSE IF falsy(Number(given)) THEN [t |-> "number", n |-> 0]
               ELSE Number(given)
      wrapped == IF listing.productCategory.t = "object"
                 THEN heap[listing.productCategory.at].oid
                 ELSE [t |-> "absent"]
      raw == IF wrapped.t \notin {"absent", "undefined", "null"} THEN wrapped
             ELSE listing.productCategory
      categoryIdStr == IF falsy(raw) THEN [t |-> "null"] ELSE strId(heap, raw, {})
      mapped == IF ~falsy(categoryIdStr) /\ categoryIdStr.v \in DOMAIN categoryMap
                THEN [t |-> "string", v |-> categoryMap[categoryIdStr.v]]
                ELSE [t |-> "undefined"]
      found == IF ~falsy(mapped) THEN mapped
               ELSE IF listing.type.t \notin {"absent", "undefined", "null"} THEN listing.type
               ELSE IF listing.brand.t \notin {"absent", "undefined", "null"} THEN listing.brand
               ELSE [t |-> "string", v |-> <<"O", "t", "h", "e", "r">>]
      text == IF falsy(found) THEN <<"O", "t", "h", "e", "r">>
              ELSE IF found.t = "string" THEN found.v
              ELSE <<"[object Object]">>
  IN IF falsy(id) THEN [id |-> id]
     ELSE [id |-> id,
           price |-> IF price.t = "number" THEN price.n ELSE 0,
           category |-> IF trim(text) = <<>> THEN <<"O", "t", "h", "e", "r">> ELSE trim(text)]

----------------------------------------------------------------------------
(* Charts                                                                  *)

(* SankeyFlow. `links` are the links pushed so far: adj holds the target   *)
(* of each under its source.                                               *)

(* only the opposite link looked for *)
wouldCycleDirect(links, src, tgt) ==
  \E k \in Indices(links) : links[k].source = tgt /\ links[k].target = src

(* wouldCycle(src, tgt): src is reached from tgt along the links *)
wouldCycle(links, src, tgt) ==
  LET reached[k \in 0..Len(States)] ==
        IF k = 0 THEN {tgt}
        ELSE reached[k - 1] \cup {links[at].target :
                                    at \in {x \in Indices(links) : links[x].source \in reached[k - 1]}}
  IN src \in reached[Len(States)]

(* base: the links of at least 2 % of the largest value; max * 0.02 is     *)
(* exact for the integers that are 2 % of an integer                       *)
pruned(links) ==
  LET max == CHOOSE m \in {0} \cup {links[k].value : k \in Indices(links)} :
               \A k \in Indices(links) : links[k].value <= m
  IN IF max > 0 THEN SelectSeq(links, LAMBDA l : 50 * l.value >= max) ELSE links

(* useState(15): the number of rows the chart shows *)
topCount == 15

(* the rows of "Cart Leak by Category": the leak rows grouped by category, *)
(* each with the cart adds of its categoryInteractions row -- its own when *)
(* there is no such row or that row has 0 -- and removes capped at adds    *)
CartLeakByCategory(data) ==
  With({
    (LET group(category) ==
           SelectSeq(data.leak.items,
                     LAMBDA row : categoryOf(data.itemMeta, row.item) = category)
         g(category) ==
           [adds |-> SumSeq([i \in Indices(group(category)) |-> group(category)[i].adds]),
            removes |-> SumSeq([i \in Indices(group(category)) |-> group(category)[i].removes]),
            items |-> [i \in Indices(group(category)) |-> group(category)[i].item]]
         known(category) ==
           {i \in Indices(data.categoryInteractions) :
              data.categoryInteractions[i].category = category}
         categoryCartData(category) ==
           IF known(category) = {} THEN 0
           ELSE data.categoryInteractions[CHOOSE i \in known(category) :
                                            \A j \in known(category) : j <= i].carts
         adds(category) ==
           IF categoryCartData(category) # 0 THEN categoryCartData(category)
           ELSE g(category).adds
         removes(category) ==
           IF g(category).removes < adds(category) THEN g(category).removes
           ELSE adds(category)
     IN Slice(leakSorted(Array([i \in Indices(categoryGroups) |->
                [category |-> categoryGroups[i],
                 adds |-> adds(categoryGroups[i]),
                 removes |-> removes(categoryGroups[i]),
                 leak |-> IF adds(categoryGroups[i]) > 0
                          THEN Rat(removes(categoryGroups[i]), adds(categoryGroups[i]))
                          ELSE RatZero,
                 itemCount |-> Len(g(categoryGroups[i]).items)]])),
              topCount))
    : categoryGroups \in {Keys([i \in Indices(data.leak.items) |->
                                 categoryOf(data.itemMeta, data.leak.items[i].item)])}})

----------------------------------------------------------------------------
(* Inputs                                                                  *)

Items == 1..MaxItem
Days == 1..MaxDay
NoCall == [total |-> 0, weights |-> <<>>]
NoReturn == [throws |-> FALSE, value |-> <<>>]
NoBundle == [sessions |-> <<>>]
NoRange == [from |-> 0, to |-> 0]

SeqsOfLen(S, n) == {s \in SeqsUpTo(S, n) : Len(s) = n}

(* the raw documents with at most `budget` raw items in all, over the      *)
(* given raw views, cart items and wishlist items                          *)
RECURSIVE DocLists(_, _, _, _, _, _)
DocLists(maxDocs, budget, dates, V, C, W) ==
  IF maxDocs = 0 THEN {<<>>}
  ELSE {<<>>} \cup
       UNION {UNION {UNION {
         {<<[createdAt |-> d, viewItems |-> v, cartItems |-> c, wishlistItems |-> w]>> \o rest :
            d \in dates, v \in SeqsOfLen(V, nv), c \in SeqsOfLen(C, nc), w \in SeqsOfLen(W, nw),
            rest \in DocLists(maxDocs - 1, budget - nv - nc - nw, dates, V, C, W)}
         : nw \in 0..(budget - nv - nc)} : nc \in 0..(budget - nv)} : nv \in 0..budget}

(* _id: the position of the document in the collection *)
WithIds(ds) == [i \in Indices(ds) |->
                    [id |-> i, createdAt |-> ds[i].createdAt, viewItems |-> ds[i].viewItems,
                     cartItems |-> ds[i].cartItems, wishlistItems |-> ds[i].wishlistItems]]

RawViews == [item : Items, createdAt : {NoDate} \cup Days]
RawAdds == [item : Items, createdAt : {NoDate}, deleted : BOOLEAN, updatedAt : {NoDate}]

(* every item listed in one category, or the first items only: the others  *)
(* fall into "Other" with price 0                                          *)
ItemMetas == {[i \in 1..k |-> [price |-> 2 * i - 1, category |-> "A"]] : k \in 1..MaxItem}

(* a date range: the empty string (0), a day of the initialData, or a later day *)
RangeDates == 0..(MaxDay + 1)

----------------------------------------------------------------------------
(* The dashboard's date filter. The React state is the record              *)
(* [dateRange, applied, validationError]; a handler maps it to the state   *)
(* after its set... calls.                                                 *)

(* the source bundle after a call of reprojectForDateRange, were its       *)
(* sessions filtered in place                                              *)
sourceFilteredInPlace(data, fromDate, toDate) ==
  [data EXCEPT !.sessions = SelectSeq(data.sessions,
                                      LAMBDA s : inRange(s.ts, fromDate, toDate))]

(* the source bundle after a call of reprojectForDateRange: filter, map,   *)
(* slice and the object spreads build new arrays and objects, and the only *)
(* sorts are applied to the arrays that map returned                       *)
sourceBundle(data, fromDate, toDate) == data

(* filtered: useMemo(() => reprojectForDateRange(initialData, applied.from, applied.to)) *)
reprojected(data, range) ==
  [throws |-> reprojectThrows(data, range.from, range.to),
   value |-> IF reprojectThrows(data, range.from, range.to) THEN NoBundle
             ELSE reprojectForDateRange(data, range.from, range.to)]

(* a date string is "" or the day it names: the format and Date tests of   *)
(* lines 51-57 pass for every day                                          *)
validateDateRange(fromDate, toDate) ==
  IF fromDate = NoDate \/ toDate = NoDate THEN [isValid |-> TRUE, error |-> ""]
  ELSE IF toDate < fromDate
  THEN [isValid |-> FALSE, error |-> "End date cannot be before start date"]
  ELSE [isValid |-> TRUE, error |-> ""]

(* startOfMonth(now) and endOfMonth(now): the month of `now` begins on     *)
(* that day and ends on the next, the earlier days are of earlier months   *)
startOfMonth == Now
endOfMonth == Now + 1

monthRange(data) ==
  IF \E i \in Indices(data.daily.series) :
        startOfMonth <= data.daily.series[i].date /\ data.daily.series[i].date <= endOfMonth
  THEN [from |-> startOfMonth, to |-> endOfMonth]
  ELSE IF data.daily.series = <<>> THEN [from |-> Now, to |-> Now]
  ELSE [from |-> data.daily.series[1].date,
        to |-> data.daily.series[Len(data.daily.series)].date]

(* the inputs filtering as they are edited *)
handleDateRangeChangeLive(state, from, to) ==
  [dateRange |-> [from |-> from, to |-> to],
   applied |-> IF validateDateRange(from, to).isValid THEN [from |-> from, to |-> to]
               ELSE state.applied,
   validationError |-> IF validateDateRange(from, to).isValid THEN ""
                       ELSE validateDateRange(from, to).error]

handleDateRangeChange(state, from, to) ==
  [dateRange |-> [from |-> from, to |-> to],
   applied |-> state.applied,
   validationError |-> IF validateDateRange(from, to).isValid THEN ""
                       ELSE validateDateRange(from, to).error]

applyDateRange(state) ==
  IF validateDateRange(state.dateRange.from, state.dateRange.to).isValid
  THEN [dateRange |-> state.dateRange, applied |-> state.dateRange, validationError |-> ""]
  ELSE [dateRange |-> state.dateRange,
        applied |-> state.applied,
        validationError |->
          validateDateRange(state.dateRange.from, state.dateRange.to).error]

(* the message of the earlier selection left in place *)
resetKeepingError(state, range) ==
  [dateRange |-> range, applied |-> range, validationError |-> state.validationError]

resetToCurrentMonth(state, range) ==
  [dateRange |-> range, applied |-> range, validationError |-> ""]

----------------------------------------------------------------------------
(* The request: the page computes the bundle from the collections, the     *)
(* dashboard reprojects it for the applied date range.                     *)

InitWith(collections) ==
  /\ pc = "fetched"
  /\ visits \in {WithIds(d) : d \in collections}
  /\ meta \in ItemMetas
  /\ initialData = NoBundle
  /\ applied = NoRange
  /\ dateRange = NoRange
  /\ validationError = ""
  /\ filtered = NoReturn
  /\ args = NoCall
  /\ ret = NoReturn

Init == InitWith(DocLists(MaxDocs, MaxRaw, Days, RawViews, RawAdds, RawAdds))

(* the cart-only collections *)
InitCarts == InitWith(DocLists(MaxDocs, MaxCarts, Days, {}, RawAdds, {}))

Compute ==
  /\ pc = "fetched"
  /\ pc' = "computed"
  /\ initialData' = computeAnalyticsFromDocs(visits, meta)
  /\ UNCHANGED <<args, ret, visits, meta, applied, filtered, dateRange, validationError>>

Reproject ==
  /\ pc = "computed"
  /\ pc' = "shown"
  /\ \E from \in RangeDates, to \in RangeDates :
       /\ applied' = [from |-> from, to |-> to]
       /\ filtered' = [throws |-> reprojectThrows(initialData, from, to),
                       value |-> IF reprojectThrows(initialData, from, to) THEN NoBundle
                                 ELSE reprojectForDateRange(initialData, from, to)]
  /\ UNCHANGED <<args, ret, visits, meta, initialData, dateRange, validationError>>

Next == Compute \/ Reproject

Spec == Init /\ [][Next]_vars

SpecCarts == InitCarts /\ [][Next]_vars

----------------------------------------------------------------------------
(* Apportionment on its own: a target and a weight vector are chosen, then *)
(* distributeToTotal is applied.                                           *)

InitDist ==
  /\ pc = "call"
  /\ args \in [total : 0..MaxTotal, weights : SeqsUpTo(0..MaxWeight, MaxLen)]
  /\ ret = NoReturn
  /\ visits = <<>>
  /\ meta = <<>>
  /\ initialData = NoBundle
  /\ applied = NoRange
  /\ dateRange = NoRange
  /\ validationError = ""
  /\ filtered = NoReturn

Distribute ==
  /\ pc = "call"
  /\ pc' = "return"
  /\ ret' = [throws |-> distributeThrows(args.total, args.weights),
             value |-> IF distributeThrows(args.total, args.weights) THEN <<>>
                       ELSE distributeToTotal(args.total, args.weights)]
  /\ UNCHANGED <<args, visits, meta, initialData, applied, filtered, dateRange, validationError>>

NextDist == Distribute

SpecDist == InitDist /\ [][NextDist]_vars

----------------------------------------------------------------------------
(* Ingestion on its own: one raw document with unresolvable ids and        *)
(* missing dates among its items, then collectSessionEvents.               *)

AnyId == {NoId, 1}
RawViewsAny == [item : AnyId, createdAt : {NoDate, 1}]
RawAddsAny == [item : AnyId, createdAt : {NoDate, 1}, deleted : BOOLEAN, updatedAt : {NoDate, Now}]

InitOn(collections) ==
  /\ pc = "call"
  /\ visits \in {WithIds(d) : d \in collections}
  /\ meta = <<>>
  /\ initialData = NoBundle
  /\ applied = NoRange
  /\ dateRange = NoRange
  /\ validationError = ""
  /\ filtered = NoReturn
  /\ args = NoCall
  /\ ret = NoReturn

InitCollect == InitOn(DocLists(1, MaxRaw, {NoDate, 1}, RawViewsAny, RawAddsAny, RawAddsAny) \ {<<>>})

Collect ==
  /\ pc = "call"
  /\ pc' = "return"
  /\ ret' = [throws |-> FALSE, value |-> collectSessionEvents(visits[1])]
  /\ UNCHANGED <<args, visits, meta, initialData, applied, filtered, dateRange, validationError>>

NextCollect == Collect

SpecCollect == InitCollect /\ [][NextCollect]_vars

----------------------------------------------------------------------------
(* The daily trend on its own: one session whose events fall on the days   *)
(* 1..MaxTrendDay, each day with or without a view and a cart add.         *)

TrendDays == 1..MaxTrendDay

TrendDoc(load) ==
  [createdAt |-> 1,
   viewItems |-> Concat([d \in TrendDays |->
                   IF load[d].view THEN <<[item |-> 1, createdAt |-> d]>> ELSE <<>>]),
   cartItems |-> Concat([d \in TrendDays |->
                   IF load[d].cart
                   THEN <<[item |-> 1, createdAt |-> d, deleted |-> FALSE, updatedAt |-> NoDate]>>
                   ELSE <<>>]),
   wishlistItems |-> <<>>]

InitDaily == InitOn({<<TrendDoc(load)>> : load \in [TrendDays -> [view : BOOLEAN, cart : BOOLEAN]]})

Trend ==
  /\ pc = "call"
  /\ pc' = "return"
  /\ ret' = [throws |-> FALSE,
             value |-> dailyTrends([i \in Indices(visits) |-> collectSessionEvents(visits[i])])]
  /\ UNCHANGED <<args, visits, meta, initialData, applied, filtered, dateRange, validationError>>

NextDaily == Trend

SpecDaily == InitDaily /\ [][NextDaily]_vars

----------------------------------------------------------------------------
(* The date filter over a longer series: the bundle is computed from one   *)
(* tracking document whose events spread over MaxTrendDay days, then       *)
(* reprojected for a range of the first days.                              *)

InitTrend ==
  InitWith({<<TrendDoc(load)>> : load \in [TrendDays -> [view : BOOLEAN, cart : BOOLEAN]]})

SpecTrend == InitTrend /\ [][Next]_vars

----------------------------------------------------------------------------
(* Recommendations on their own: sessions that view a run of items         *)
(* starting at the first item or ending at the last one.                   *)

RecoRuns == {<<>>} \cup {[i \in 1..k |-> i] : k \in 1..MaxRecoItem}
              \cup {[i \in 1..k |-> MaxRecoItem - k + i] : k \in 1..MaxRecoItem}

RecoDoc(run) ==
  [createdAt |-> 1,
   viewItems |-> [i \in Indices(run) |-> [item |-> run[i], createdAt |-> NoDate]],
   cartItems |-> <<>>,
   wishlistItems |-> <<>>]

InitReco == InitOn({[i \in Indices(runs) |-> RecoDoc(runs[i])] : runs \in SeqsUpTo(RecoRuns, MaxRecoDocs)})

Recommend ==
  /\ pc = "call"
  /\ pc' = "return"
  /\ ret' = [throws |-> FALSE,
             value |-> cooccurrenceRecos([i \in Indices(visits) |-> collectSessionEvents(visits[i])])]
  /\ UNCHANGED <<args, visits, meta, initialData, applied, filtered, dateRange, validationError>>

NextReco == Recommend

SpecReco == InitReco /\ [][NextReco]_vars

----------------------------------------------------------------------------
(* Price tiers on their own: up to MaxTierItem listed items with prices in *)
(* ascending order, and one session of up to MaxTierRaw raw items.         *)

TierItems == 1..MaxTierItem
TierPrices == {1, 2, 5}

TierMetas ==
  {[i \in Indices(prices) |-> [price |-> prices[i], category |-> "A"]] :
     prices \in {p \in SeqsUpTo(TierPrices, MaxTierItem) :
                   p # <<>> /\ \A i \in 1..(Len(p) - 1) : p[i] <= p[i + 1]}}

TierViews == [item : TierItems, createdAt : {NoDate}]
TierCarts ==
  [item : TierItems, createdAt : {NoDate}, deleted : BOOLEAN, updatedAt : {NoDate}]
  \cup [item : TierItems, createdAt : {Now}, deleted : {FALSE}, updatedAt : {NoDate}]
TierWishes == [item : TierItems, createdAt : {NoDate}, deleted : {FALSE}, updatedAt : {NoDate}]

InitTiers ==
  /\ pc = "call"
  /\ visits \in {WithIds(d) : d \in DocLists(1, MaxTierRaw, {1}, TierViews, TierCarts, TierWishes)}
  /\ meta \in TierMetas
  /\ initialData = NoBundle
  /\ applied = NoRange
  /\ dateRange = NoRange
  /\ validationError = ""
  /\ filtered = NoReturn
  /\ args = NoCall
  /\ ret = NoReturn

(* the bundle, and the tier of every listed item *)
Tiers ==
  /\ pc = "call"
  /\ pc' = "return"
  /\ ret' = [throws |-> FALSE,
             value |-> computeAnalyticsFromDocs(visits, meta),
             tier |-> [id \in DOMAIN meta |->
                         tierForItem(meta, robustPriceSplits(pricesOf(meta, DOMAIN meta)), id)]]
  /\ UNCHANGED <<args, visits, meta, initialData, applied, filtered, dateRange, validationError>>

NextTiers == Tiers

SpecTiers == InitTiers /\ [][NextTiers]_vars

----------------------------------------------------------------------------
(* The dashboard: the page computes the bundle, the component mounts with  *)
(* the default range and then handles edits of the From and To inputs,     *)
(* Apply Date Range and Reset to Current Month in any order.               *)

DashViews == [item : {1}, createdAt : {NoDate}]
DashCarts == [item : {1}, createdAt : {NoDate}, deleted : {FALSE}, updatedAt : {NoDate}]

DashDays == {1, Now}

InitDashboard ==
  /\ pc = "fetched"
  /\ visits \in {WithIds(d) : d \in DocLists(MaxDocs, MaxDashRaw, DashDays, DashViews, DashCarts, {})}
  /\ meta = [i \in {1} |-> [price |-> 1, category |-> "A"]]
  /\ initialData = NoBundle
  /\ applied = NoRange
  /\ dateRange = NoRange
  /\ validationError = ""
  /\ filtered = NoReturn
  /\ args = NoCall
  /\ ret = NoReturn

(* the state after a handler: the component renders again, and filtered is *)
(* recomputed when applied has changed                                     *)
Rendered(handler, state) ==
  /\ pc' = "mounted"
  /\ args' = [handler |-> handler]
  /\ dateRange' = state.dateRange
  /\ applied' = state.applied
  /\ validationError' = state.validationError
  /\ filtered' = IF state.applied = applied THEN filtered
                 ELSE reprojected(initialData, state.applied)
  /\ initialData' = IF state.applied = applied THEN initialData
                    ELSE sourceBundle(initialData, state.applied.from, state.applied.to)
  /\ UNCHANGED <<ret, visits, meta>>

Mount ==
  /\ pc = "computed"
  /\ Rendered("AnalyticsDashboard",
              [dateRange |-> monthRange(initialData),
               applied |-> monthRange(initialData),
               validationError |-> ""])

(* one of the two inputs is edited *)
HandleDateRangeChange ==
  /\ pc = "mounted"
  /\ ~filtered.throws
  /\ \E from \in RangeDates, to \in RangeDates :
       /\ from = dateRange.from \/ to = dateRange.to
       /\ Rendered("handleDateRangeChange",
                   handleDateRangeChange([dateRange |-> dateRange, applied |-> applied,
                                          validationError |-> validationError], from, to))

(* the button is disabled while a validation error is shown *)
ApplyDateRange ==
  /\ pc = "mounted"
  /\ ~filtered.throws
  /\ validationError = ""
  /\ Rendered("applyDateRange",
              applyDateRange([dateRange |-> dateRange, applied |-> applied,
                              validationError |-> validationError]))

ResetToCurrentMonth ==
  /\ pc = "mounted"
  /\ ~filtered.throws
  /\ Rendered("resetToCurrentMonth",
              resetToCurrentMonth([dateRange |-> dateRange, applied |-> applied,
                                   validationError |-> validationError],
                                  monthRange(initialData)))

NextDashboard ==
  Compute \/ Mount \/ HandleDateRangeChange \/ ApplyDateRange \/ ResetToCurrentMonth

SpecDashboard == InitDashboard /\ [][NextDashboard]_vars

----------------------------------------------------------------------------
(* Listings on their own: a heap of up to MaxObj objects that may refer to *)
(* each other or to themselves through _id, and one listing whose _id is   *)
(* any value over that heap, or whose other fields are malformed.          *)

InitListing ==
  LET strings == {[t |-> "string", v |-> s] : s \in {<<>>, <<"a">>, <<" ", "b", " ">>}}
      refs == {[t |-> "object", at |-> a] : a \in 1..MaxObj}
      ids == {[t |-> "undefined"], [t |-> "null"], [t |-> "ObjectId", v |-> <<"c">>]}
               \cup strings \cup refs
      prices == {[t |-> "absent"], [t |-> "null"], [t |-> "NaN"], [t |-> "Infinity"],
                 [t |-> "boolean", b |-> TRUE], [t |-> "object", at |-> 1]}
                  \cup {[t |-> "number", n |-> n] : n \in {-1, 0, 2}}
                  \cup {[t |-> "string", v |-> s] :
                          s \in {<<>>, <<"a">>, <<" ", "1", "2">>, <<"-", "1">>}}
      names == {[t |-> "absent"], [t |-> "null"], [t |-> "object", at |-> 1]} \cup strings
      plain == [listing : [id : {[t |-> "string", v |-> <<"a">>]},
                           retailPrice : {[t |-> "absent"]},
                           variationPrice : {[t |-> "absent"]},
                           productCategory : {[t |-> "absent"]},
                           type : {[t |-> "absent"]},
                           brand : {[t |-> "absent"]}],
                heap : [1..MaxObj -> [oid : {[t |-> "absent"], [t |-> "null"]} \cup strings,
                                      id : {[t |-> "absent"]} \cup ids]],
                categoryMap : {<<>>}]
      malformed == [listing : [id : {[t |-> "string", v |-> <<"a">>]},
                               retailPrice : prices,
                               variationPrice : {[t |-> "absent"], [t |-> "number", n |-> 1]},
                               productCategory : {[t |-> "absent"], [t |-> "object", at |-> 1]}
                                                   \cup strings,
                               type : names,
                               brand : {[t |-> "absent"], [t |-> "string", v |-> <<"d">>]}],
                    heap : {[a \in 1..MaxObj |-> [oid |-> oid, id |-> [t |-> "absent"]]] :
                              oid \in {[t |-> "absent"], [t |-> "string", v |-> <<"a">>]}},
                    categoryMap : {<<>>, [key \in {<<"a">>} |-> <<"e">>]}]
  IN /\ pc = "call"
     /\ args \in {[call EXCEPT !.listing.id = id] : call \in plain, id \in ids} \cup malformed
     /\ visits = <<>>
     /\ meta = <<>>
     /\ initialData = NoBundle
     /\ applied = NoRange
     /\ dateRange = NoRange
     /\ validationError = ""
     /\ filtered = NoReturn
     /\ ret = NoReturn

StrId ==
  /\ pc = "call"
  /\ pc' = "return"
  /\ ret' = [throws |-> FALSE, of |-> "strId", value |-> strId(args.heap, args.listing.id, {})]
  /\ UNCHANGED <<args, visits, meta, initialData, applied, filtered, dateRange, validationError>>

BuildItemMeta ==
  /\ pc = "call"
  /\ pc' = "return"
  /\ ret' = [throws |-> FALSE, of |-> "buildItemMeta",
             value |-> buildItemMeta(args.heap, args.listing, args.categoryMap)]
  /\ UNCHANGED <<args, visits, meta, initialData, applied, filtered, dateRange, validationError>>

NextListing == StrId \/ BuildItemMeta

SpecListing == InitListing /\ [][NextListing]_vars

----------------------------------------------------------------------------
(* The flow chart on its own: any list of up to MaxLinks links among the   *)
(* first three states, self-loops and opposite links included; the loop    *)
(* over the pruned links takes one step per link.                          *)

InitSankey ==
  /\ pc = "call"
  /\ args \in [links : SeqsUpTo([source : 0..2, target : 0..2, value : {0, 1, 50, 51}], MaxLinks)]
  /\ visits = <<>>
  /\ meta = <<>>
  /\ initialData = NoBundle
  /\ applied = NoRange
  /\ dateRange = NoRange
  /\ validationError = ""
  /\ filtered = NoReturn
  /\ ret = NoReturn

Prune ==
  /\ pc = "call"
  /\ pc' = "loop"
  /\ args' = [links |-> args.links, base |-> pruned(args.links), i |-> 0]
  /\ ret' = [throws |-> FALSE, value |-> <<>>]
  /\ UNCHANGED <<visits, meta, initialData, applied, filtered, dateRange, validationError>>

(* one turn of `for (const l of base)`, or the end of the loop *)
Accept ==
  /\ pc = "loop"
  /\ IF args.i = Len(args.base)
     THEN pc' = "return" /\ UNCHANGED <<args, ret>>
     ELSE LET l == args.base[args.i + 1]
              sName == States[l.source + 1]
              tName == States[l.target + 1]
          IN /\ pc' = "loop"
             /\ args' = [args EXCEPT !.i = args.i + 1]
             /\ ret' = [ret EXCEPT !.value =
                          IF sName = tName \/ wouldCycle(ret.value, sName, tName) THEN @
                          ELSE Append(@, [source |-> sName, target |-> tName, value |-> l.value])]
  /\ UNCHANGED <<visits, meta, initialData, applied, filtered, dateRange, validationError>>

NextSankey == Prune \/ Accept

SpecSankey == InitSankey /\ [][NextSankey]_vars

----------------------------------------------------------------------------
(* Properties                                                              *)

(* C1: for every target T >= 0 and every non-empty vector w of            *)
(* non-negative weights, all-zero included, distributeToTotal(T, w)        *)
(* returns without raising a vector of non-negative integers, as long as   *)
(* w, whose entries sum to exactly T.                                      *)
C1_ApportionedSumIsTotal ==
  (pc = "return" /\ Len(args.weights) >= 1) =>
     /\ ~ret.throws
     /\ Len(ret.value) = Len(args.weights)
     /\ \A i \in 1..Len(ret.value) : ret.value[i] \in Nat
     /\ SumSeq(ret.value) = args.total

(* an all-zero vector takes the whole target through the remainder loop *)
C1_Witness ==
  /\ pc = "return"
  /\ args = [total |-> 3, weights |-> <<0, 0>>]
  /\ ret = [throws |-> FALSE, value |-> <<2, 1>>]

(* the sessions of the computed bundle that the applied range matches *)
Matching == SelectSeq(initialData.sessions,
                      LAMBDA session : applied.from <= session.ts /\ session.ts <= applied.to)

MatchingAdds == SumSeq([i \in 1..Len(Matching) |-> Matching[i].nCartAdd])
MatchingRemoves == SumSeq([i \in 1..Len(Matching) |-> Matching[i].nCartRemove])

(* a bundle came back for a range that matches a session *)
Returned == pc = "shown" /\ ~filtered.throws /\ Matching # <<>>

(* the bundles emitted so far: the computed one and the reprojected one *)
Emitted ==
  (IF pc \in {"computed", "shown"} THEN {initialData} ELSE {})
  \cup (IF pc = "shown" /\ ~filtered.throws THEN {filtered.value} ELSE {})

InUnit(q) == 0 <= q.num /\ q.num <= q.den

(* C2: in every emitted bundle, computed or reprojected, each leak row's   *)
(* leak and leak.overall lie in [0,1], and leak.overall is 0 whenever the  *)
(* sessions of the bundle hold no cart add.                                *)
C2_LeakInUnitInterval ==
  \A b \in Emitted :
     /\ \A i \in 1..Len(b.leak.items) : InUnit(b.leak.items[i].leak)
     /\ InUnit(b.leak.overall)
     /\ SumSeq([i \in 1..Len(b.sessions) |-> b.sessions[i].nCartAdd]) = 0 => b.leak.overall.num = 0

(* the applied range runs from the earliest to the latest session date *)
FullRange ==
  /\ pc = "shown"
  /\ initialData.sessions # <<>>
  /\ \E i \in 1..Len(initialData.sessions) : initialData.sessions[i].ts = applied.from
  /\ \E i \in 1..Len(initialData.sessions) : initialData.sessions[i].ts = applied.to
  /\ \A i \in 1..Len(initialData.sessions) :
        applied.from <= initialData.sessions[i].ts /\ initialData.sessions[i].ts <= applied.to

SameButLinksAndSeries(r, o) ==
  /\ r.sessions = o.sessions
  /\ r.leak = o.leak
  /\ r.categoryInteractions = o.categoryInteractions
  /\ r.transitions.counts = o.transitions.counts
  /\ r.transitions.probs = o.transitions.probs
  /\ r.priceRangeData = o.priceRangeData
  /\ r.priceBands = o.priceBands
  /\ r.frequentBundles = o.frequentBundles
  /\ r.recos = o.recos

RowSum(row) == SumSeq([k \in 1..Len(States) |-> row[k - 1]])

(* the fractions of the row add up to 1 *)
AddsToOne(row) ==
  LET dens == row[0].den * row[1].den * row[2].den * row[3].den * row[4].den
  IN SumSeq([k \in 1..Len(States) |-> row[k - 1].num * (dens \div row[k - 1].den)]) = dens

(* C5: in every emitted bundle, the empty-range one included, a row of     *)
(* transitions.probs is all-zero exactly when the row of counts sums to 0; *)
(* otherwise probs[i][j] = counts[i][j] / row sum and the row sums to 1;   *)
(* no entry is negative or above 1.                                        *)
C5_ProbRowsNormalised ==
  \A b \in Emitted : \A i \in StateIdx :
     LET counts == b.transitions.counts[i]
         probs == b.transitions.probs[i]
     IN /\ \A j \in StateIdx : InUnit(probs[j])
        /\ RowSum(counts) = 0 => \A j \in StateIdx : probs[j].num = 0
        /\ RowSum(counts) # 0 =>
             /\ \A j \in StateIdx : probs[j].num * RowSum(counts) = counts[j] * probs[j].den
             /\ AddsToOne(probs)

(* a reprojection that scaled the counts and left a row with two cells *)
C5_Witness ==
  /\ Returned
  /\ filtered.value.transitions.counts # initialData.transitions.counts
  /\ \E i \in StateIdx : RowSum(filtered.value.transitions.counts[i]) > 0
  /\ \E i \in StateIdx : \E j \in StateIdx :
        LET p == filtered.value.transitions.probs[i][j] IN 0 < p.num /\ p.num < p.den

(* C6: for any source bundle, one without sessions included, and any range *)
(* that matches no session, from > to included, reprojectForDateRange      *)
(* returns without raising the empty shape: no sessions, no leak items     *)
(* with overall 0, no category interactions, empty price samples, no price *)
(* bands, 5x5 all-zero counts and probabilities, no links.                 *)
C6_EmptyRangeShape ==
  (pc = "shown" /\ Matching = <<>>) =>
     /\ ~filtered.throws
     /\ filtered.value.sessions = <<>>
     /\ filtered.value.leak.items = <<>>
     /\ filtered.value.leak.overall.num = 0
     /\ filtered.value.categoryInteractions = <<>>
     /\ filtered.value.priceRangeData.viewFromPrices = <<>>
     /\ filtered.value.priceRangeData.viewToCartFromPrices = <<>>
     /\ filtered.value.priceRangeData.cartAddPrices = <<>>
     /\ filtered.value.priceRangeData.cartRemovePrices = <<>>
     /\ filtered.value.priceBands.bands = <<>>
     /\ DOMAIN filtered.value.transitions.counts = 0..4
     /\ DOMAIN filtered.value.transitions.probs = 0..4
     /\ \A i \in 0..4 :
           /\ DOMAIN filtered.value.transitions.counts[i] = 0..4
           /\ DOMAIN filtered.value.transitions.probs[i] = 0..4
           /\ \A j \in 0..4 : /\ filtered.value.transitions.counts[i][j] = 0
                              /\ filtered.value.transitions.probs[i][j].num = 0
     /\ filtered.value.sankey.links = <<>>

(* a range with from > to on a bundle that has sessions, leak rows and links *)
C6_Witness ==
  /\ pc = "shown"
  /\ applied.from > applied.to
  /\ applied.to > 0
  /\ initialData.sessions # <<>>
  /\ initialData.leak.items # <<>>
  /\ initialData.sankey.links # <<>>
  /\ filtered.value.sessions = <<>>

(* C9: in every bundle returned for a range that matches a session, the    *)
(* adds of the leak rows sum to the nCartAdd of the matching sessions and  *)
(* the removes of the leak rows to their nCartRemove.                      *)
C9_LeakTotalsMatchSessions ==
  Returned =>
     /\ SumSeq([i \in 1..Len(filtered.value.leak.items) |-> filtered.value.leak.items[i].adds])
          = MatchingAdds
     /\ SumSeq([i \in 1..Len(filtered.value.leak.items) |-> filtered.value.leak.items[i].removes])
          = MatchingRemoves

(* two leak rows re-apportioned to the totals of one of two sessions *)
C9_Witness ==
  /\ Returned
  /\ Len(Matching) < Len(initialData.sessions)
  /\ Len(filtered.value.leak.items) = 2
  /\ MatchingAdds = 2
  /\ MatchingRemoves = 1
  /\ filtered.value.leak.items # initialData.leak.items

(* C10: in every bundle returned for a range that matches a session, the   *)
(* carts of the category rows sum to the nCartAdd of the matching sessions *)
(* and so to the adds of the leak rows of that bundle.                     *)
C10_CategoryCartsMatchLeakAdds ==
  Returned =>
     LET carts == SumSeq([i \in 1..Len(filtered.value.categoryInteractions) |->
                            filtered.value.categoryInteractions[i].carts])
     IN /\ carts = MatchingAdds
        /\ carts = SumSeq([i \in 1..Len(filtered.value.leak.items) |->
                             filtered.value.leak.items[i].adds])

(* two categories whose carts were re-apportioned to a smaller total *)
C10_Witness ==
  /\ Returned
  /\ Len(filtered.value.categoryInteractions) = 2
  /\ MatchingAdds = 1
  /\ \E i \in 1..2 : filtered.value.categoryInteractions[i].carts
                       # initialData.categoryInteractions[i].carts

(* C4, as the claim states it: if the list emitted for A contains B with   *)
(* score s, the list emitted for B contains A with the same score s.       *)
C4_RecoSymmetry ==
  pc = "return" =>
     LET recos == ret.value.recos
     IN \A a \in DOMAIN recos : \A k \in 1..Len(recos[a]) :
           /\ recos[a][k].item \in DOMAIN recos
           /\ \E m \in 1..Len(recos[recos[a][k].item]) :
                 recos[recos[a][k].item][m] = [item |-> a, score |-> recos[a][k].score]

(* C4, amended: if the list emitted for A contains B with score s, then    *)
(* the list emitted for B contains A with score s, or it is full (10       *)
(* entries) and every entry of it scores at least s.                       *)
C4_RecoSymmetryUpToCut ==
  pc = "return" =>
     LET recos == ret.value.recos
     IN \A a \in DOMAIN recos : \A k \in 1..Len(recos[a]) :
           /\ recos[a][k].item \in DOMAIN recos
           /\ LET theirs == recos[recos[a][k].item]
                  s == recos[a][k].score
              IN \/ \E m \in 1..Len(theirs) : theirs[m] = [item |-> a, score |-> s]
                 \/ /\ Len(theirs) = 10
                    /\ \A m \in 1..Len(theirs) :
                          theirs[m].score.num * s.den >= s.num * theirs[m].score.den

(* the last of twelve items viewed together lists the first, the first     *)
(* has ten better or equal partners and does not list the last             *)
C4_Witness ==
  /\ pc = "return"
  /\ DOMAIN ret.value.recos = 1..12
  /\ \E m \in 1..Len(ret.value.recos[12]) : ret.value.recos[12][m].item = 1
  /\ \A m \in 1..Len(ret.value.recos[1]) : ret.value.recos[1][m].item # 12
  /\ \E m \in 1..Len(ret.value.recos[2]) : ret.value.recos[2][m].item = 1
  /\ \E m \in 1..Len(ret.value.recos[1]) : ret.value.recos[1][m].item = 2

(* C7: dailyTrends reports hasThresholds only if the series has at least   *)
(* 3 day buckets and the daily cart counts are not all equal (deviation    *)
(* > 0); without thresholds the outliers are empty; lower is never         *)
(* negative.                                                               *)
C7_AnomalyThresholds ==
  pc = "return" =>
     LET series == ret.value.series
         anomaly == ret.value.anomaly
     IN /\ anomaly.hasThresholds =>
             /\ Len(series) >= 3
             /\ \E i \in 1..Len(series) : \E j \in 1..Len(series) :
                   series[i].carts # series[j].carts
        /\ ~anomaly.hasThresholds => anomaly.outliers = <<>>
        /\ SurdCmpInt(anomaly.lower, 0) >= 0

(* six days, one of them with a cart add: thresholds and an outlier *)
C7_Witness ==
  /\ pc = "return"
  /\ Len(ret.value.series) = 6
  /\ ret.value.anomaly.hasThresholds
  /\ Len(ret.value.anomaly.outliers) = 1
  /\ SurdCmpInt(ret.value.anomaly.lower, 0) = 0

(* C8: the session built from a raw document has nCartAdd = number of cart *)
(* events with add = 1, nCartRemove = number of cart events with           *)
(* remove = 1, nView = number of view events.                              *)
C8_SessionCounts ==
  pc = "return" =>
     /\ ret.value.nCartAdd =
          Cardinality({k \in 1..Len(ret.value.carts) : ret.value.carts[k].add = 1})
     /\ ret.value.nCartRemove =
          Cardinality({k \in 1..Len(ret.value.carts) : ret.value.carts[k].remove = 1})
     /\ ret.value.nView = Len(ret.value.views)

(* two cart items, one of them deleted: three cart events *)
C8_Witness ==
  /\ pc = "return"
  /\ Len(visits[1].cartItems) = 2
  /\ Len(ret.value.carts) = 3
  /\ ret.value.nCartAdd = 2
  /\ ret.value.nCartRemove = 1

(* C11: in every bundle returned by reprojectForDateRange, the links are   *)
(* exactly the cells (i, j) with i # j of the reprojected counts whose     *)
(* count is > 0, one link per cell carrying that count; no link has        *)
(* source = target.                                                        *)
C11_LinksAreOffDiagonalCells ==
  (pc = "shown" /\ ~filtered.throws) =>
     LET counts == filtered.value.transitions.counts
         links == filtered.value.sankey.links
     IN /\ \A k \in 1..Len(links) :
             /\ links[k].source \in StateIdx
             /\ links[k].target \in StateIdx
             /\ links[k].source # links[k].target
             /\ links[k].value = counts[links[k].source][links[k].target]
             /\ links[k].value > 0
        /\ \A i \in StateIdx : \A j \in StateIdx :
             (i # j /\ counts[i][j] > 0) =>
                Cardinality({k \in 1..Len(links) :
                               links[k].source = i /\ links[k].target = j}) = 1

(* a reprojected matrix with a positive diagonal cell and a link beside it *)
C11_Witness ==
  /\ Returned
  /\ \E i \in StateIdx : filtered.value.transitions.counts[i][i] > 0
  /\ filtered.value.sankey.links # <<>>

(* the tiers of the returned bundle collapse *)
Collapsed ==
  \/ ret.value.priceMarkovMeta.tLow.null
  \/ ret.value.priceMarkovMeta.tHigh.null
  \/ ret.value.priceMarkovMeta.tLow = ret.value.priceMarkovMeta.tHigh

(* C12: when the price tiers collapse (tLow or tHigh null, or tLow =       *)
(* tHigh), every item is assigned tier "All", the funnel model of          *)
(* priceSegmentedMarkov holds the single tier "All" and no Low, Mid or     *)
(* High entry, and priceBandsFromQuantiles emits exactly one band, named   *)
(* "All"; otherwise every item is assigned Low (price <= tLow), Mid (tLow  *)
(* < price <= tHigh) or High (price > tHigh).                              *)
C12_CollapsedTiersAreAll ==
  pc = "return" =>
     IF Collapsed
     THEN /\ \A id \in DOMAIN ret.tier : ret.tier[id] = "All"
          /\ DOMAIN ret.value.priceMarkov = {"All"}
          /\ Len(ret.value.priceBands.bands) = 1
          /\ ret.value.priceBands.bands[1].name = "All"
     ELSE \A id \in DOMAIN ret.tier :
             ret.tier[id] =
               IF priceLeq(meta[id].price, ret.value.priceMarkovMeta.tLow) THEN "Low"
               ELSE IF priceLeq(meta[id].price, ret.value.priceMarkovMeta.tHigh) THEN "Mid"
               ELSE "High"

(* the transitions of the sessions collected from the visits *)
TierTransitions ==
  transitionMatrixAndSankey([i \in 1..Len(visits) |-> collectSessionEvents(visits[i])],
                            meta).allTransitions

(* the transitions that leave an event of the type priced in the band *)
LeavingBand(name, type) ==
  {at \in 1..Len(TierTransitions) :
     /\ TierTransitions[at].from.type = type
     /\ name = IF priceLeq(TierTransitions[at].from.price, ret.value.priceMarkovMeta.tLow)
               THEN "Low"
               ELSE IF priceLeq(TierTransitions[at].from.price, ret.value.priceMarkovMeta.tHigh)
               THEN "Mid"
               ELSE "High"}

CartHits(leaving) == Cardinality({at \in leaving : TierTransitions[at].to.type = "cart_add"})

(* C13: for every Low, Mid or High band emitted by priceBandsFromQuantiles *)
(* viewToCart = (view -> cart_add hits + 1) / (view transitions + 2) and   *)
(* wishToCart = (wishlist_add -> cart_add hits + 1) / (wishlist_add        *)
(* transitions + 2), bands with zero samples included (rate 1/2, not 0);   *)
(* nView and nWish are the sample sizes.                                   *)
C13_BandRatesSmoothed ==
  pc = "return" =>
     \A k \in 1..Len(ret.value.priceBands.bands) :
        LET band == ret.value.priceBands.bands[k]
        IN band.name \in {"Low", "Mid", "High"} =>
             /\ band.nView = Cardinality(LeavingBand(band.name, "view"))
             /\ band.nWish = Cardinality(LeavingBand(band.name, "wishlist_add"))
             /\ band.viewToCart.num * (band.nView + 2)
                  = (CartHits(LeavingBand(band.name, "view")) + 1) * band.viewToCart.den
             /\ band.wishToCart.num * (band.nWish + 2)
                  = (CartHits(LeavingBand(band.name, "wishlist_add")) + 1) * band.wishToCart.den

(* C14: with raw shares r_i = (w_i / sum w) * T (0 when all weights are 0) *)
(* distributeToTotal gives each entry floor(r_i) plus at most one extra    *)
(* unit, the T - sum floor(r_i) extra units going one each to the entries  *)
(* with the largest fractional parts, ties to the entry that comes first;  *)
(* weights [3,3,3] and T = 10 give [4,3,3].                                *)
C14_LargestRemainderTiesInOrder ==
  /\ distributeToTotal(10, <<3, 3, 3>>) = <<4, 3, 3>>
  /\ (pc = "return" /\ ~ret.throws) =>
        LET w == args.weights
            sum == IF SumSeq(w) = 0 THEN 1 ELSE SumSeq(w)
            floor(i) == (w[i] * args.total) \div sum
            frac(i) == (w[i] * args.total) % sum
            extra == args.total - SumSeq([i \in 1..Len(w) |-> floor(i)])
            ahead(i) == Cardinality({j \in 1..Len(w) :
                                       frac(j) > frac(i) \/ (frac(j) = frac(i) /\ j < i)})
        IN \A i \in 1..Len(w) :
              ret.value[i] = floor(i) + (IF ahead(i) < extra THEN 1 ELSE 0)

C16_SessionsFilteredInclusive ==
  pc = "shown" /\ ~filtered.throws =>
    /\ filtered.value.sessions =
         SelectSeq(initialData.sessions, LAMBDA s : applied.from <= s.ts /\ s.ts <= applied.to)
    /\ filtered.value.sessions # <<>> =>
         /\ ~DblLess(ratioOf(filtered.value.sessions, initialData), DblOfInt(0))
         /\ ~DblLess(DblOfInt(1), ratioOf(filtered.value.sessions, initialData))
         /\ ratioOf(filtered.value.sessions, initialData) =
              DblDiv(Len(filtered.value.sessions), Len(initialData.sessions))

(* a one-day range keeps the session of that day, which lies on both       *)
(* bounds, and drops another session                                       *)
C16_Witness ==
  /\ pc = "shown"
  /\ ~filtered.throws
  /\ applied.from = applied.to
  /\ Len(filtered.value.sessions) = 1
  /\ filtered.value.sessions[1].ts = applied.from
  /\ Len(initialData.sessions) = 2
  /\ initialData.sessions[2] = filtered.value.sessions[1]

(* C17: the daily series has one row per calendar day on which a view or   *)
(* a cart add occurred, in strictly increasing date order; a day's views   *)
(* is the number of view events and its carts the number of cart-add       *)
(* events whose own timestamp falls on that day; so the views of the       *)
(* series add up to the nView of the sessions and the carts to their       *)
(* nCartAdd. Two sessions of one day with 3 and 2 views and 1 and 0 cart   *)
(* adds give that day {views: 5, carts: 1}.                                *)
C17_DailySeriesCountsEvents ==
  /\ dailyTrends(<<[views |-> <<[ts |-> 1], [ts |-> 1], [ts |-> 1]>>,
                    carts |-> <<[ts |-> 1, add |-> 1, remove |-> 0]>>],
                   [views |-> <<[ts |-> 1], [ts |-> 1]>>, carts |-> <<>>]>>).series
       = <<[date |-> 1, views |-> 5, carts |-> 1]>>
  /\ pc \in {"computed", "shown"} =>
       With({
         LET series == initialData.daily.series
             viewsOn(d) == SumSeq([i \in Indices(sessions) |->
                             Cardinality({k \in Indices(sessions[i].views) :
                                            sessions[i].views[k].ts = d})])
             cartsOn(d) == SumSeq([i \in Indices(sessions) |->
                             Cardinality({k \in Indices(sessions[i].carts) :
                                            /\ sessions[i].carts[k].add = 1
                                            /\ sessions[i].carts[k].ts = d})])
         IN /\ \A d \in 1..Now :
                 Cardinality({r \in Indices(series) : series[r].date = d})
                   = IF viewsOn(d) + cartsOn(d) > 0 THEN 1 ELSE 0
            /\ \A r \in Indices(series) :
                 /\ series[r].date \in 1..Now
                 /\ series[r].views = viewsOn(series[r].date)
                 /\ series[r].carts = cartsOn(series[r].date)
            /\ \A r \in 1..(Len(series) - 1) : series[r].date < series[r + 1].date
            /\ SumSeq([r \in Indices(series) |-> series[r].views])
                 = SumSeq([i \in Indices(initialData.sessions) |-> initialData.sessions[i].nView])
            /\ SumSeq([r \in Indices(series) |-> series[r].carts])
                 = SumSeq([i \in Indices(initialData.sessions) |-> initialData.sessions[i].nCartAdd])
         : sessions \in {Array([i \in Indices(visits) |-> collectSessionEvents(visits[i])])}})

(* two sessions, the later one first: the earlier day has a view and the   *)
(* later day a cart add, and the view of the first session is dated on a   *)
(* day other than its session's                                            *)
C17_Witness ==
  /\ pc = "computed"
  /\ Len(initialData.sessions) = 2
  /\ initialData.sessions[1].ts > initialData.sessions[2].ts
  /\ Len(initialData.daily.series) = 2
  /\ initialData.daily.series[1].views = 1
  /\ initialData.daily.series[2].carts = 1
  /\ visits[1].viewItems # <<>>
  /\ visits[1].viewItems[1].createdAt \notin {NoDate, visits[1].createdAt}

(* C18: with freq(a) the number of sessions whose unique items contain a   *)
(* and support(a, b) the number of sessions whose unique items contain     *)
(* both a and b, the frequent bundles are the pairs a # b of highest       *)
(* support, 15 at most, each with its support, in non-increasing support   *)
(* order; and the recommendation list of every item has at most 10         *)
(* entries in non-increasing score order, each scored                      *)
(* support / sqrt(freq(a) * freq(b)).                                      *)
C18_SupportAndFrequency ==
  pc = "return" =>
    With({
      LET freq(a) == Cardinality({at \in Indices(uniqueItems) : a \in uniqueItems[at]})
          support(a, b) == Cardinality({at \in Indices(uniqueItems) :
                                          a \in uniqueItems[at] /\ b \in uniqueItems[at]})
          pairs == {p \in (1..MaxRecoItem) \X (1..MaxRecoItem) :
                      p[1] < p[2] /\ support(p[1], p[2]) > 0}
          bundles == ret.value.bundles
          recos == ret.value.recos
          listed == {bundles[i].items : i \in Indices(bundles)}
      IN /\ Len(bundles) = IF Cardinality(pairs) < 15 THEN Cardinality(pairs) ELSE 15
         /\ listed \subseteq pairs
         /\ Cardinality(listed) = Len(bundles)
         /\ \A i \in Indices(bundles) :
              /\ bundles[i].support = DblOfInt(support(bundles[i].items[1], bundles[i].items[2]))
              /\ \A p \in pairs \ listed : support(p[1], p[2]) <= bundles[i].support.int
         /\ \A i \in 1..(Len(bundles) - 1) : bundles[i].support.int >= bundles[i + 1].support.int
         /\ \A a \in DOMAIN recos :
              /\ Len(recos[a]) <= 10
              /\ \A m \in 1..(Len(recos[a]) - 1) :
                   ~RatLess(recos[a][m].score, recos[a][m + 1].score)
              /\ \A m \in Indices(recos[a]) :
                   /\ recos[a][m].item # a
                   /\ support(a, recos[a][m].item) > 0
                   /\ recos[a][m].score =
                        Rat(support(a, recos[a][m].item) * support(a, recos[a][m].item),
                            freq(a) * freq(recos[a][m].item))
      : uniqueItems \in {Array([at \in Indices(visits) |->
                           Range(collectSessionEvents(visits[at]).uniqueItems)])}})

(* more than 15 pairs and more than 10 partners, and supports that differ: *)
(* the pair viewed in both sessions is listed first though found last      *)
C18_Witness ==
  /\ pc = "return"
  /\ Len(ret.value.bundles) = 15
  /\ ret.value.bundles[1].support.int = 2
  /\ ret.value.bundles[15].support.int = 1
  /\ ret.value.bundles[1].items = <<MaxRecoItem - 1, MaxRecoItem>>
  /\ Len(visits[1].viewItems) = MaxRecoItem
  /\ Len(ret.value.recos[1]) = 10

(* C19: editing the From and To inputs (handleDateRangeChange) never       *)
(* changes the applied range or the reprojected data; the applied range    *)
(* changes only on Apply Date Range, when the selected range passes        *)
(* validateDateRange, and then becomes the selected range, or on Reset to  *)
(* Current Month, and then becomes the default range.                      *)
C19_AppliedOnlyOnApplyOrReset ==
  [][pc = "mounted" =>
       /\ args'.handler = "handleDateRangeChange" =>
            applied' = applied /\ filtered' = filtered
       /\ applied' # applied =>
            \/ /\ args'.handler = "applyDateRange"
               /\ validateDateRange(dateRange.from, dateRange.to).isValid
               /\ applied' = dateRange
            \/ /\ args'.handler = "resetToCurrentMonth"
               /\ applied' = monthRange(initialData)]_vars

(* a valid range is selected in the inputs and not applied: the data shown *)
(* is still that of the applied range, which holds a session the selected  *)
(* range leaves out                                                        *)
C19_Witness ==
  /\ pc = "mounted"
  /\ args.handler = "handleDateRangeChange"
  /\ validationError = ""
  /\ dateRange # applied
  /\ dateRange.from # NoDate
  /\ dateRange.to # NoDate
  /\ ~filtered.throws
  /\ \E i \in Indices(filtered.value.sessions) :
       ~inRange(filtered.value.sessions[i].ts, dateRange.from, dateRange.to)

(* the rows of "Cart Leak by Category" for the bundles emitted so far,     *)
(* each with the categoryInteractions of its bundle                        *)
ChartRows ==
  UNION {With({{[row |-> rows[i], categoryInteractions |-> b.categoryInteractions] :
                  i \in Indices(rows)} : rows \in {CartLeakByCategory(b)}}) : b \in Emitted}

(* C20: for every bundle passed to the charts, computed or reprojected, a  *)
(* row of "Cart Leak by Category" whose category is in categoryInteractions *)
(* has the cart adds of that category there, so the two charts show the    *)
(* same cart-add number; and every row has removes <= adds and leak in     *)
(* [0,1].                                                                  *)
C20_ChartsShowSameCartAdds ==
  \A shown \in ChartRows :
    /\ \A i \in Indices(shown.categoryInteractions) :
         shown.categoryInteractions[i].category = shown.row.category =>
           shown.row.adds = shown.categoryInteractions[i].carts
    /\ shown.row.removes <= shown.row.adds
    /\ InUnit(shown.row.leak)

(* the entry built by the call of buildItemMeta, when the listing has one *)
Built == pc = "return" /\ ret.of = "buildItemMeta" /\ ~falsy(ret.value.id)

(* C21: for every listing, however malformed, the entry built by           *)
(* buildItemMeta has a finite price that is not negative, 0 when no price  *)
(* is given or the given one is not a number nor a string that reads as    *)
(* one, and a category that is a trimmed string and not empty.             *)
C21_MetaPriceAndCategory ==
  Built =>
    /\ ret.value.price >= 0
    /\ LET given == IF args.listing.retailPrice.t \in {"absent", "null"}
                    THEN args.listing.variationPrice
                    ELSE args.listing.retailPrice
       IN \/ given.t = "number"
          \/ given.t = "string" /\ Number(given).t = "number" /\ trim(given.v) # <<>>
          \/ ret.value.price = 0
    /\ ret.value.category # <<>>
    /\ Head(ret.value.category) # " "
    /\ ret.value.category[Len(ret.value.category)] # " "

(* the values met from the argument of strId by following _id: an object   *)
(* is left through its _id when it has one and is no wrapped identifier    *)
Followed(value) ==
  /\ value.t = "object"
  /\ args.heap[value.at].oid.t # "string"
  /\ args.heap[value.at].id.t # "absent"

ChainOfIds ==
  LET met[k \in 0..MaxObj] ==
        IF k = 0 THEN args.listing.id
        ELSE IF Followed(met[k - 1]) THEN args.heap[met[k - 1].at].id
        ELSE met[k - 1]
  IN met

(* MaxObj objects were left and the next one is left again: a cycle *)
Cyclic == \A k \in 0..MaxObj : Followed(ChainOfIds[k])

IdReturned == pc = "return" /\ ret.of = "strId"

(* C22 as stated: strId returns null when the _id chain is cyclic, and s   *)
(* when the chain is finite and ends in a string s or in a wrapped         *)
(* identifier {$oid: s}.                                                   *)
C22_StrIdResolvesChains ==
  IdReturned =>
    LET end == ChainOfIds[MaxObj]
    IN /\ Cyclic => ret.value = [t |-> "null"]
       /\ ~Cyclic /\ end.t = "string" => ret.value = end
       /\ ~Cyclic /\ end.t = "object" /\ args.heap[end.at].oid.t = "string" =>
            ret.value = args.heap[end.at].oid

(* C22, amended: strId terminates on every input; it returns null when the *)
(* _id chain is cyclic, s when the chain is finite and ends in a non-empty *)
(* string s or in a wrapped identifier {$oid: s}, and null when the chain  *)
(* ends in the empty string.                                               *)
C22_StrIdResolvesNonEmpty ==
  IdReturned =>
    LET end == ChainOfIds[MaxObj]
    IN /\ Cyclic => ret.value = [t |-> "null"]
       /\ ~Cyclic /\ end.t = "string" /\ end.v # <<>> => ret.value = end
       /\ ~Cyclic /\ end.t = "string" /\ end.v = <<>> => ret.value = [t |-> "null"]
       /\ ~Cyclic /\ end.t = "object" /\ args.heap[end.at].oid.t = "string" =>
            ret.value = args.heap[end.at].oid

(* two objects, each the _id of the other *)
C22_Witness ==
  /\ IdReturned
  /\ args.listing.id = [t |-> "object", at |-> 1]
  /\ args.heap[1].id = [t |-> "object", at |-> 2]
  /\ args.heap[2].id = [t |-> "object", at |-> 1]
  /\ args.heap[1].oid.t = "absent"
  /\ args.heap[2].oid.t = "null"
  /\ ret.value = [t |-> "null"]

(* the events of a session are those of its raw items, in order: events    *)
(* 1 .. Before(raws, k) come from the raw items before the k-th            *)
Before(raws, k) ==
  SumSeq([j \in 1..(k - 1) |->
            IF raws[j].item = NoId THEN 0 ELSE IF raws[j].deleted THEN 2 ELSE 1])

ExpandsTo(raws, events, ts) ==
  /\ Len(events) = Before(raws, Len(raws) + 1)
  /\ \A k \in Indices(raws) :
       LET time == IF raws[k].createdAt # NoDate THEN raws[k].createdAt ELSE ts
       IN raws[k].item # NoId =>
            /\ events[Before(raws, k) + 1] =
                 [itemId |-> raws[k].item, ts |-> time, add |-> 1, remove |-> 0]
            /\ raws[k].deleted =>
                 events[Before(raws, k) + 2] =
                   [itemId |-> raws[k].item,
                    ts |-> IF raws[k].updatedAt # NoDate THEN raws[k].updatedAt ELSE time,
                    add |-> 0, remove |-> 1]

(* C23: every raw cart or wishlist item with a resolvable id yields one    *)
(* add event (add = 1, remove = 0) at its creation time, or at the session *)
(* timestamp without one, and, if and only if it is flagged deleted, one   *)
(* further remove event (add = 0, remove = 1) of the same item at its      *)
(* update time, or at the time of the add event without a valid one; a raw *)
(* item whose id does not resolve yields no event.                         *)
C23_DeletedItemsExpand ==
  pc = "return" =>
    /\ ExpandsTo(visits[1].cartItems, ret.value.carts, ret.value.ts)
    /\ ExpandsTo(visits[1].wishlistItems, ret.value.wish, ret.value.ts)

(* a document without a date: an unresolvable cart item, then a deleted    *)
(* one with neither a creation nor an update time, whose two events fall   *)
(* on the session timestamp                                                *)
C23_Witness ==
  /\ pc = "return"
  /\ visits[1].createdAt = NoDate
  /\ Len(visits[1].cartItems) = 2
  /\ visits[1].cartItems[1].item = NoId
  /\ visits[1].cartItems[2].deleted
  /\ visits[1].cartItems[2].createdAt = NoDate
  /\ visits[1].cartItems[2].updatedAt = NoDate
  /\ Len(ret.value.carts) = 2
  /\ ret.value.carts[2] = [itemId |-> 1, ts |-> Now, add |-> 0, remove |-> 1]

(* the number of source events of a session with the type, item and time   *)
(* of the event e                                                          *)
Sources(session, e) ==
  LET from(list, key) ==
        Cardinality({k \in Indices(list) :
                       list[k].itemId = e.itemId /\ list[k].ts = e.ts /\ list[k][key] = 1})
  IN IF e.type = "view"
     THEN Cardinality({k \in Indices(session.views) :
                         session.views[k].itemId = e.itemId /\ session.views[k].ts = e.ts})
     ELSE IF e.type = "cart_add" THEN from(session.carts, "add")
     ELSE IF e.type = "cart_remove" THEN from(session.carts, "remove")
     ELSE IF e.type = "wishlist_add" THEN from(session.wish, "add")
     ELSE from(session.wish, "remove")

(* C24: the merged event stream of each session is a permutation of its    *)
(* view, cart and wishlist events in non-decreasing timestamp order;       *)
(* counts[a][b] is the number of adjacent pairs of one session's stream    *)
(* with the types (a, b); the counts add up to the length of               *)
(* allTransitions and to the sum over the sessions of max(0, stream        *)
(* length - 1); every transition is an adjacent pair of one stream; and    *)
(* the links are exactly the cells with a positive count, each with its    *)
(* count.                                                                  *)
C24_CountsAreAdjacentPairs ==
  pc = "computed" =>
    With({With({
      LET pairs == UNION {{<<s, i>> : i \in 1..(Len(streams[s]) - 1)} : s \in Indices(streams)}
          counts == initialData.transitions.counts
          links == initialData.sankey.links
      IN /\ \A s \in Indices(streams) :
              /\ Len(streams[s]) =
                   Len(sessions[s].views) + Len(sessions[s].carts) + Len(sessions[s].wish)
              /\ \A i \in Indices(streams[s]) :
                   Cardinality({k \in Indices(streams[s]) :
                                  /\ streams[s][k].type = streams[s][i].type
                                  /\ streams[s][k].itemId = streams[s][i].itemId
                                  /\ streams[s][k].ts = streams[s][i].ts})
                     = Sources(sessions[s], streams[s][i])
              /\ \A i \in 1..(Len(streams[s]) - 1) : streams[s][i].ts <= streams[s][i + 1].ts
         /\ \A a \in StateIdx : \A b \in StateIdx :
              counts[a][b] = Cardinality({p \in pairs :
                                            /\ index(streams[p[1]][p[2]].type) = a
                                            /\ index(streams[p[1]][p[2] + 1].type) = b})
         /\ SumSeq([k \in 1..(Len(States) * Len(States)) |->
                     counts[(k - 1) \div Len(States)][(k - 1) % Len(States)]])
              = Len(transitionMatrixAndSankey(sessions, meta).allTransitions)
         /\ Cardinality(pairs) = Len(transitionMatrixAndSankey(sessions, meta).allTransitions)
         /\ \A t \in Range(transitionMatrixAndSankey(sessions, meta).allTransitions) :
              \E p \in pairs : t.from = streams[p[1]][p[2]] /\ t.to = streams[p[1]][p[2] + 1]
         /\ {<<links[k].source, links[k].target>> : k \in Indices(links)}
              = {c \in StateIdx \X StateIdx : counts[c[1]][c[2]] > 0}
         /\ Cardinality({<<links[k].source, links[k].target>> : k \in Indices(links)}) = Len(links)
         /\ \A k \in Indices(links) : links[k].value = counts[links[k].source][links[k].target]
      : streams \in {Array([s \in Indices(sessions) |->
                       buildEventStreamForSession(sessions[s], meta)])}})
      : sessions \in {Array([s \in Indices(visits) |-> collectSessionEvents(visits[s])])}})

(* two sessions: the first views an item dated after its kept cart item,   *)
(* so its stream is cart_add, view; the second has no event and no pair    *)
C24_Witness ==
  /\ pc = "computed"
  /\ Len(visits) = 2
  /\ Len(visits[1].viewItems) = 1
  /\ Len(visits[1].cartItems) = 1
  /\ visits[1].viewItems[1].createdAt > visits[1].createdAt
  /\ Len(visits[2].viewItems) + Len(visits[2].cartItems) + Len(visits[2].wishlistItems) = 0
  /\ initialData.transitions.counts[0][2] = 1
  /\ Len(initialData.sankey.links) = 1

(* C25: after any sequence of edits of the date inputs, Apply Date Range   *)
(* and Reset clicks, the applied range consists of two dates with          *)
(* to >= from; a range whose end is before its start, or with a missing    *)
(* date, is never applied. (A date input yields the empty string or a      *)
(* date in YYYY-MM-DD form, so no malformed date reaches the handlers.)    *)
C25_AppliedRangeIsValid ==
  pc = "mounted" =>
    /\ applied.from # NoDate
    /\ applied.to # NoDate
    /\ applied.from <= applied.to

(* C26: after any sequence of edits of the date inputs, Apply Date Range   *)
(* and Reset clicks, the validation error message is non-empty if and only *)
(* if the selected range fails validateDateRange, and it is then the       *)
(* message of validateDateRange; so the Apply button, whose `disabled` is  *)
(* !!validationError, is disabled exactly when the selected range is       *)
(* invalid.                                                                *)
C26_ErrorIffSelectionInvalid ==
  pc = "mounted" =>
    /\ validationError # "" <=> ~validateDateRange(dateRange.from, dateRange.to).isValid
    /\ validationError # "" =>
         validationError = validateDateRange(dateRange.from, dateRange.to).error

(* an end date before the start date is selected: the message is shown,    *)
(* and the applied range is still the earlier one                          *)
C26_Witness ==
  /\ pc = "mounted"
  /\ args.handler = "handleDateRangeChange"
  /\ dateRange.to # NoDate
  /\ dateRange.to < dateRange.from
  /\ validationError = "End date cannot be before start date"
  /\ applied # dateRange

(* the pairs joined by a path of one link or more *)
Flows(links) ==
  LET direct == {<<links[k].source, links[k].target>> : k \in Indices(links)}
      paths[k \in 0..Len(States)] ==
        IF k = 0 THEN direct
        ELSE paths[k - 1] \cup {<<p[1], q[2]>> :
                                 <<p, q>> \in {pq \in paths[k - 1] \X direct : pq[1][2] = pq[2][1]}}
  IN paths[Len(States)]

Acyclic(links) == \A n \in Range(States) : <<n, n>> \notin Flows(links)

BelowThreshold(l, links) ==
  \E k \in Indices(links) : 100 * l.value < 2 * links[k].value

(* C27: whatever links SankeyFlow is given, after each link the links      *)
(* pushed so far hold no directed cycle and no self-loop; a link dropped   *)
(* before the loop is below 2 % of the largest value, and a link the loop  *)
(* does not push is a self-loop or has a path of pushed links from its     *)
(* target back to its source.                                              *)
C27_SankeyIsAcyclic ==
  [][/\ pc = "call" =>
          \A k \in Indices(args.links) :
            \/ \E at \in Indices(args'.base) : args'.base[at] = args.links[k]
            \/ BelowThreshold(args.links[k], args.links)
     /\ pc = "loop" /\ pc' = "loop" =>
          LET l == args.base[args'.i]
              sName == States[l.source + 1]
              tName == States[l.target + 1]
              link == [source |-> sName, target |-> tName, value |-> l.value]
          IN /\ Acyclic(ret'.value)
             /\ \/ ret'.value = Append(ret.value, link)
                \/ /\ ret'.value = ret.value
                   /\ sName = tName \/ <<tName, sName>> \in Flows(ret.value)]_vars

(* three links of one value round a triangle: the third is not pushed *)
C27_Witness ==
  /\ pc = "return"
  /\ Len(args.base) = 3
  /\ \A k \in 1..3 : args.base[k].source = k - 1 /\ args.base[k].target = k % 3
  /\ Len(ret.value) = 2

(* C28: in the bundle computed from any tracking documents every session   *)
(* has nCartRemove <= nCartAdd, every item row of the leak summary has     *)
(* removes <= adds and adds >= 1, the removes of all rows are no more than *)
(* the adds of all rows, and each leak ratio is removes / adds itself, the *)
(* clamp to [0, 1] leaving it as it is.                                    *)
C28_RemovesWithinAdds ==
  pc # "fetched" =>
    LET sessions == initialData.sessions
        rows == initialData.leak.items
        tAdds == SumSeq([i \in Indices(rows) |-> rows[i].adds])
        tRem == SumSeq([i \in Indices(rows) |-> rows[i].removes])
    IN /\ \A i \in Indices(sessions) : sessions[i].nCartRemove <= sessions[i].nCartAdd
       /\ \A i \in Indices(rows) :
            /\ rows[i].removes <= rows[i].adds
            /\ rows[i].adds >= 1
            /\ rows[i].leak = Rat(rows[i].removes, rows[i].adds)
       /\ tRem <= tAdds
       /\ tAdds > 0 => initialData.leak.overall = Rat(tRem, tAdds)

(* one item added twice and removed once, another added and removed once *)
C28_Witness ==
  /\ pc = "computed"
  /\ Len(initialData.leak.items) = 2
  /\ \E i, j \in 1..2 :
       /\ initialData.leak.items[i].adds = 2 /\ initialData.leak.items[i].removes = 1
       /\ initialData.leak.items[j].adds = 1 /\ initialData.leak.items[j].removes = 1
  /\ initialData.leak.overall = Rat(2, 3)
  /\ \E k \in Indices(initialData.sessions) :
       initialData.sessions[k].nCartRemove = initialData.sessions[k].nCartAdd
       /\ initialData.sessions[k].nCartAdd > 0

(* C29, as claimed: for a target T >= 0 and non-negative weights of which  *)
(* one at least is positive, distributeToTotal gives 0 to every entry of   *)
(* weight 0 and an entry of no less weight gets no less:                   *)
(* w_i >= w_j implies allocation_i >= allocation_j.                        *)
C29_AllocationMonotone ==
  (pc = "return" /\ \E k \in Indices(args.weights) : args.weights[k] > 0) =>
    /\ \A i \in Indices(args.weights) : args.weights[i] = 0 => ret.value[i] = 0
    /\ \A i, j \in Indices(args.weights) :
         args.weights[i] >= args.weights[j] => ret.value[i] >= ret.value[j]

(* C29, as the code has it: an entry of weight 0 gets 0, an entry of       *)
(* greater weight gets no less, and entries of equal weight get the same   *)
(* or the earlier one gets one more.                                       *)
C29_AllocationMonotoneUpToTies ==
  (pc = "return" /\ \E k \in Indices(args.weights) : args.weights[k] > 0) =>
    /\ \A i \in Indices(args.weights) : args.weights[i] = 0 => ret.value[i] = 0
    /\ \A i, j \in Indices(args.weights) :
         /\ args.weights[i] > args.weights[j] => ret.value[i] >= ret.value[j]
         /\ (args.weights[i] = args.weights[j] /\ i < j) =>
               ret.value[i] \in {ret.value[j], ret.value[j] + 1}

(* weights [1, 1, 0] and the target 1, say: the equal weights part by one  *)
(* unit and the entry of weight 0 is left with nothing                     *)
C29_Witness ==
  /\ pc = "return"
  /\ args.total > 0
  /\ \E i \in Indices(args.weights) : args.weights[i] = 0 /\ ret.value[i] = 0
  /\ \E i, j \in Indices(args.weights) :
       i < j /\ args.weights[i] = args.weights[j] /\ ret.value[i] = ret.value[j] + 1

(* C30: in every bundle reprojectForDateRange returns, for an empty range  *)
(* or not, every date of daily.anomaly.outliers is the date of a row of    *)
(* daily.series, and hasThresholds holds only when daily.series has three  *)
(* rows or more.                                                           *)
C30_AnomalyMatchesSeries ==
  (pc = "shown" /\ ~filtered.throws) =>
    LET daily == filtered.value.daily
    IN /\ \A k \in Indices(daily.anomaly.outliers) :
            \E i \in Indices(daily.series) : daily.series[i].date = daily.anomaly.outliers[k]
       /\ daily.anomaly.hasThresholds => Len(daily.series) >= 3

====
